---- MODULE Spec2Model ----
(***************************************************************************)
(* PyScope package-state engine (src/pyscope/core.py, PackageManagerCore). *)
(* The engine's shared state, its load / check / cancel operations and the *)
(* threads they start are modelled step by step; self.lock is modelled by  *)
(* lockHolder, so a step that runs "with self.lock" needs the lock free    *)
(* and a thread that keeps the lock across steps blocks the others.        *)
(***************************************************************************)
EXTENDS Integers, Sequences, FiniteSets, TLC

\* ---------------------------------------------------------------- bounds
\* How many calls and environment events a behaviour may hold, per specification.
MaxLoads == 2
MaxChecks == 2
LoadSpecChecks == 1
SwitchLoads == 1
SwitchChecks == 1
MaxSingles == 1
MaxPipChanges == 1
MaxNetErrors == 1
MaxTicks == 2
TickSeconds == 20
BreakerPkgs == 11
MaxOps == 1
MaxSnaps == 1
FetchErrors == 4
NameLen == 3
VerLen == 5
MaxSaves == 3
MaxGets == 2
MaxCacheTicks == 3
CacheTickSeconds == 1800
StoredEnvs == 19

\* ------------------------------------------------------ program constants
rate_limit_seconds == 30
_cache_expiry == 3600
_packages_cache_max_size == 20
_consecutive_failures_threshold == 10
max_retries == 3
max_workers == 4

\* ------------------------------------------------------------- universe
Envs == {"e1", "e2"}
NoEnv == "none"
Names == {"a", "b"}
\* the packages of the long list the circuit breaker is checked on
BreakerNames == <<"p01", "p02", "p03", "p04", "p05", "p06", "p07", "p08", "p09", "p10",
                  "p11", "p12", "p13">>
\* the same names as a caller or an index may spell them
SpelledNames == {"A", "B"}
AllNames == Names \cup SpelledNames \cup {BreakerNames[i] : i \in 1..Len(BreakerNames)}

\* Version strings are sequences of characters, so that parsing is computed.
V10 == <<"1", ".", "0">>
V20 == <<"2", ".", "0">>
UnknownV == <<"U", "n", "k", "n", "o", "w", "n">>
ErrorV == <<"E", "r", "r", "o", "r">>
Absent == <<>>

\* str.lower() on the package names of the universe
Lower(n) == CASE n = "A" -> "a" [] n = "B" -> "b" [] OTHER -> n

\* order of the lowercased names (the sort key of packages.sort)
NameRank(n) ==
    CASE Lower(n) = "a" -> 1
      [] Lower(n) = "b" -> 2
      [] OTHER -> 2 + (CHOOSE i \in 1..Len(BreakerNames) : BreakerNames[i] = n)

\* What the registry answers for a package when the request succeeds.
RegistryVersion(n) == V20

\* ---------------------------------------------------- VersionComparator
Digits == {"0", "1", "2", "3", "4", "5", "6", "7", "8", "9"}

DigitValue(c) ==
    CASE c = "0" -> 0 [] c = "1" -> 1 [] c = "2" -> 2 [] c = "3" -> 3
      [] c = "4" -> 4 [] c = "5" -> 5 [] c = "6" -> 6 [] c = "7" -> 7
      [] c = "8" -> 8 [] c = "9" -> 9

RECURSIVE SplitDots(_)
SplitDots(s) ==
    IF \A i \in 1..Len(s) : s[i] # "."
    THEN <<s>>
    ELSE LET k == CHOOSE i \in 1..Len(s) :
                      s[i] = "." /\ \A j \in 1..(i - 1) : s[j] # "."
         IN <<SubSeq(s, 1, k - 1)>> \o SplitDots(SubSeq(s, k + 1, Len(s)))

RECURSIVE LeadingInt(_, _)
LeadingInt(part, acc) ==
    IF part = <<>> \/ Head(part) \notin Digits
    THEN acc
    ELSE LeadingInt(Tail(part), acc * 10 + DigitValue(Head(part)))

parse_version(v) ==
    LET parts == SplitDots(v)
    IN [i \in 1..Len(parts) |-> LeadingInt(parts[i], 0)]

Padded(t, n) == [i \in 1..n |-> IF i <= Len(t) THEN t[i] ELSE 0]

TupleLess(a, b) ==
    \E i \in 1..Len(a) :
        /\ i <= Len(b)
        /\ a[i] < b[i]
        /\ \A j \in 1..(i - 1) : a[j] = b[j]

is_outdated(installed, latest) ==
    LET a == parse_version(installed)
        b == parse_version(latest)
        n == IF Len(a) > Len(b) THEN Len(a) ELSE Len(b)
    IN TupleLess(Padded(a, n), Padded(b, n))

\* The status rule of _check_single_package_simple (lines 519-524).
StatusFor(pkg_ver, latest) ==
    IF latest = UnknownV \/ latest = ErrorV THEN "Unknown"
    ELSE IF is_outdated(pkg_ver, latest) THEN "Outdated"
    ELSE "Updated"

\* --------------------------------------------------------- package lists
Pkg(n, v, l, s) == [name |-> n, ver |-> v, lat |-> l, stat |-> s]

RECURSIVE InsertByName(_, _)
InsertByName(s, p) ==
    IF s = <<>> THEN <<p>>
    ELSE IF NameRank(s[Len(s)].name) <= NameRank(p.name)
         THEN Append(s, p)
         ELSE Append(InsertByName(SubSeq(s, 1, Len(s) - 1), p), s[Len(s)])

\* list.sort(key=lambda x: x["name"].lower()), a stable sort
RECURSIVE SortByName(_)
SortByName(s) ==
    IF s = <<>> THEN <<>>
    ELSE InsertByName(SortByName(SubSeq(s, 1, Len(s) - 1)), s[Len(s)])

\* index of the first package whose name is exactly n, 0 when there is none
IndexOf(pkgs, n) ==
    IF \E i \in 1..Len(pkgs) : pkgs[i].name = n
    THEN CHOOSE i \in 1..Len(pkgs) :
             pkgs[i].name = n /\ \A j \in 1..(i - 1) : pkgs[j].name # n
    ELSE 0

\* ------------------------------------------------------- _packages_cache
\* An OrderedDict: a sequence of [key, packages, timestamp] in insertion order.
\* packages is a dict name -> [ver, lat, stat], a function on the saved names.
SnapshotOf(pkgs) ==
    LET names == {pkgs[i].name : i \in 1..Len(pkgs)}
        last(n) == CHOOSE i \in 1..Len(pkgs) :
                       pkgs[i].name = n /\ \A j \in (i + 1)..Len(pkgs) : pkgs[j].name # n
    IN [n \in names |-> [ver |-> pkgs[last(n)].ver,
                         lat |-> pkgs[last(n)].lat,
                         stat |-> pkgs[last(n)].stat]]

RECURSIVE _trim_cache(_, _)
_trim_cache(cache, max_size) ==
    IF Len(cache) > max_size THEN _trim_cache(Tail(cache), max_size) ELSE cache

CacheIndex(cache, key) ==
    IF \E i \in 1..Len(cache) : cache[i].key = key
    THEN CHOOSE i \in 1..Len(cache) : cache[i].key = key
    ELSE 0

_save_packages_to_cache(cache, environment_id, pkgs, t) ==
    IF environment_id = NoEnv THEN cache
    ELSE LET entry == [key |-> environment_id, packages |-> SnapshotOf(pkgs), timestamp |-> t]
             k == CacheIndex(cache, environment_id)
             put == IF k = 0 THEN Append(cache, entry) ELSE [cache EXCEPT ![k] = entry]
         IN _trim_cache(put, _packages_cache_max_size)

\* An entry that is already expired when its age equals the expiry time: C13
\* must fail with it.
C13_ExpiresAtTTL(cache, environment_id, t) ==
    LET k == CacheIndex(cache, environment_id)
    IN k # 0 /\ t - cache[k].timestamp >= _cache_expiry

\* lines 601-604: the entry is older than the expiry time
CacheExpired(cache, environment_id, t) ==
    LET k == CacheIndex(cache, environment_id)
    IN k # 0 /\ t - cache[k].timestamp > _cache_expiry

\* the dict _get_cached_packages returns
_get_cached_packages(cache, environment_id, t) ==
    LET k == CacheIndex(cache, environment_id)
    IN IF k = 0 \/ CacheExpired(cache, environment_id, t) THEN <<>>
       ELSE cache[k].packages

\* A lookup that makes the entry it reads the newest one: C12 must fail with it.
C12_ReadRenews(cache, environment_id, t) ==
    LET k == CacheIndex(cache, environment_id)
    IN IF k = 0 THEN cache
       ELSE SubSeq(cache, 1, k - 1) \o SubSeq(cache, k + 1, Len(cache)) \o <<cache[k]>>

\* the cache after _get_cached_packages: an expired entry is deleted
CacheAfterGet(cache, environment_id, t) ==
    IF CacheExpired(cache, environment_id, t)
    THEN LET k == CacheIndex(cache, environment_id)
         IN SubSeq(cache, 1, k - 1) \o SubSeq(cache, k + 1, Len(cache))
    ELSE cache

\* ------------------------------------------------------------------ state
VARIABLES
    packages,               \* self.packages: the list of package records
    checking,               \* self.checking
    _load_generation,       \* self._load_generation
    _check_cancelled,       \* self._check_cancelled (an Event)
    _shutting_down,         \* self._shutting_down (an Event)
    last_check_time,        \* self.last_check_time: name -> time, -1 when absent
    _packages_cache,        \* self._packages_cache
    current_environment_id, \* self.current_environment_id
    pip_command,            \* the environment self.pip_command runs pip in
    _consecutive_failures,  \* self._consecutive_failures
    lockHolder,             \* the load task that holds self.lock, 0 when free
    installed,              \* what the package manager has installed, per environment
    now,                    \* the clock, in seconds
    ui,                     \* the caller inside load_packages_with_cache
    loads,                  \* the load_task threads, by generation
    batches,                \* the check_updates calls and their batch threads
    tasks,                  \* the _check_single_package_simple runs
    budget,                 \* the calls and environment events still allowed (bounds)
    lastCommit,             \* history: the generation whose load_task assigned packages last
    ops,                    \* the install_task and uninstall_task threads
    held,                   \* a list a caller got from refresh_packages_data / filter_packages
    birth,                  \* history of the cache-level actions: the order in which
                            \* the keys were inserted
    got,                    \* history of the cache-level actions: the last lookup and
                            \* what it returned
    probe,                  \* the argument and the result of a call of a function
                            \* that reads no engine state
    legacy                  \* the locks and the executor workers of the older engine
                            \* (src/core.py)

vars == <<packages, checking, _load_generation, _check_cancelled, _shutting_down,
          last_check_time, _packages_cache, current_environment_id, pip_command,
          _consecutive_failures, lockHolder, installed, now, ui, loads, batches,
          tasks, budget, lastCommit, ops, held, birth, got, probe, legacy>>

engineVars == <<packages, checking, _load_generation, _check_cancelled, _shutting_down,
                last_check_time, _packages_cache, current_environment_id, pip_command,
                _consecutive_failures>>

\* the generations: the load an initial state may have behind it, and MaxLoads calls
LoadIds == 1..(MaxLoads + 1)
BatchIds == 1..MaxChecks
\* tasks maps <<batch, index>> (an executor future) and <<0, k>> (a check_single
\* thread) to the state of that run; it grows as runs are submitted.

\* after is history: the check batches that were running and had been cancelled
\* when the load was called.
NoLoad == [pc |-> "none", env |-> NoEnv, new_packages |-> <<>>, outcome |-> "none",
           after |-> {}]
\* started, finished, notified count the on_start, on_finish and package-updated
\* callbacks of the call; commit, cancelled and failrun are history: the load
\* generation whose list the batch snapshotted, whether cancel_check was called
\* during the batch, and the current run of checks whose fetch gave no version.
NoBatch == [pc |-> "none", todo |-> <<>>, idx |-> 0, yielded |-> {},
            started |-> 0, finished |-> 0, notified |-> 0,
            commit |-> 0, cancelled |-> FALSE, failrun |-> 0,
            gen |-> 0]
NewTask(n, v, f, p) == [pc |-> p, name |-> n, ver |-> v, force |-> f,
                        attempt |-> 0, latest |-> Absent, result |-> FALSE,
                        answer |-> "none"]

\* A list handed to a caller is a new list of the same dict objects: taken is
\* what it held when it was copied; live[i] says that self.packages still
\* holds the i-th dict, and frozen[i] is the value the dict had when
\* self.packages dropped it.
NoHeld == [has |-> FALSE, taken |-> <<>>, frozen |-> <<>>, live |-> <<>>]

\* what the caller reads in the list it holds
HeldView ==
    [i \in 1..Len(held.taken) |->
        IF held.live[i] /\ IndexOf(packages, held.taken[i].name) # 0
        THEN packages[IndexOf(packages, held.taken[i].name)]
        ELSE held.frozen[i]]

\* self.packages drops the dicts whose lowercased name is in dropped
HeldAfterDrop(dropped) ==
    [held EXCEPT !.frozen = HeldView,
                 !.live = [i \in 1..Len(held.taken) |->
                              held.live[i] /\ Lower(held.taken[i].name) \notin dropped]]

\* the keys of the cache-level specification
CacheKeys == <<"k01", "k02", "k03", "k04", "k05", "k06", "k07", "k08", "k09", "k10",
               "k11", "k12", "k13", "k14", "k15", "k16", "k17", "k18", "k19", "k20",
               "k21", "k22", "k23">>
CacheKeySet == {CacheKeys[i] : i \in 1..Len(CacheKeys)}
NoBirth == [k \in CacheKeySet |-> 0]
NoGot == [key |-> "", at |-> 0, result |-> <<>>]
NoProbe == [call |-> "none", arg |-> <<>>, pc |-> "done", result |-> <<>>]

\* the older engine: ThreadPoolExecutor(max_workers=min(2, total)), src/core.py:127
legacy_max_workers == 2
LegacyWorkers == 1..legacy_max_workers
\* lock and batch_lock: the worker that holds self.lock and self._batch_lock
\* (0 when free); left: the submitted runs no worker has taken yet
NoLegacy == [lock |-> 0, batch_lock |-> 0, pc |-> [w \in LegacyWorkers |-> "idle"],
             left |-> 0]

LockFree == lockHolder = 0

\* the batch thread of call b runs
ActiveBatch(b) == batches[b].pc \in {"snapshot", "empty", "emptyclean", "submit",
                                     "collect", "cleanup", "finish"}

\* pip list: the installed packages in name order, nothing known about them yet
Listing(inst) ==
    LET RECURSIVE ToSeq(_)
        ToSeq(S) == IF S = {} THEN <<>>
                    ELSE LET n == CHOOSE x \in S : \A y \in S : NameRank(x) <= NameRank(y)
                         IN <<Pkg(n, inst[n], UnknownV, "Unknown")>> \o ToSeq(S \ {n})
    IN ToSeq({n \in DOMAIN inst : inst[n] # Absent})

\* _try_pip_list in the environment of the pip command
PipList(e) == Listing(installed[e])

InitInstalled ==
    [e \in Envs |-> IF e = "e1"
                    THEN [n \in Names |-> IF n = "a" THEN V10 ELSE Absent]
                    ELSE [n \in Names |-> IF n = "a" THEN V20 ELSE V10]]

\* The engine as __init__ leaves it (lines 28-82).
Fresh ==
    /\ packages = <<>>
    /\ checking = FALSE
    /\ _load_generation = 0
    /\ _check_cancelled = FALSE
    /\ _shutting_down = FALSE
    /\ last_check_time = [n \in AllNames |-> -1]
    /\ _packages_cache = <<>>
    /\ current_environment_id = NoEnv
    /\ pip_command = "e1"
    /\ _consecutive_failures = 0
    /\ lockHolder = 0
    /\ installed = InitInstalled
    /\ now = 0
    /\ ops = <<>>
    /\ held = NoHeld
    /\ birth = NoBirth
    /\ got = NoGot
    /\ legacy = NoLegacy
    /\ probe = NoProbe
    /\ ui = [pc |-> "idle", env |-> NoEnv, force |-> FALSE, after |-> {}]
    /\ loads = [g \in LoadIds |-> NoLoad]
    /\ batches = [b \in BatchIds |-> NoBatch]
    /\ tasks = <<>>
    /\ lastCommit = 0

Init ==
    /\ Fresh
    /\ budget = [loads |-> MaxLoads, checks |-> LoadSpecChecks, singles |-> 0,
                 pip |-> MaxPipChanges, net |-> 0, ticks |-> 0,
                 ops |-> 0, snaps |-> 0, saves |-> 0, gets |-> 0]

\* ------------------------------------------------- load_packages_with_cache
\* The caller sets the pip command of the environment (main_window.py:963) and
\* enters load_packages_with_cache: _check_cancelled.set(), then the sleep.
load_packages_with_cache_enter(environment_id, force_refresh) ==
    /\ ui.pc = "idle"
    /\ budget.loads > 0
    /\ LockFree
    /\ pip_command' = environment_id
    /\ _check_cancelled' = TRUE
    /\ ui' = [pc |-> "load", env |-> environment_id, force |-> force_refresh,
              after |-> {b \in BatchIds : ActiveBatch(b) /\ batches[b].cancelled}]
    /\ budget' = [budget EXCEPT !.loads = @ - 1]
    /\ UNCHANGED <<packages, checking, _load_generation, _shutting_down, last_check_time,
                   _packages_cache, current_environment_id, _consecutive_failures,
                   lockHolder, installed, now, ops, held, birth, got, loads, batches, tasks, lastCommit, probe, legacy>>

\* After the sleep: clear the flag, set the environment, clear the cache when
\* forced (under self.lock), increment the generation (under _load_gen_lock
\* only) and start load_task.
load_packages_with_cache_submit ==
    /\ ui.pc = "load"
    /\ ui.force => LockFree
    /\ _check_cancelled' = FALSE
    /\ current_environment_id' = ui.env
    /\ _packages_cache' = IF ui.force THEN <<>> ELSE _packages_cache
    /\ _load_generation' = _load_generation + 1
    /\ loads' = [loads EXCEPT ![_load_generation + 1] =
                     [pc |-> "start", env |-> ui.env, new_packages |-> <<>>,
                      outcome |-> "none", after |-> ui.after]]
    /\ ui' = [pc |-> "idle", env |-> NoEnv, force |-> FALSE, after |-> {}]
    /\ UNCHANGED <<packages, checking, _shutting_down, last_check_time, pip_command,
                   _consecutive_failures, lockHolder, installed, now, ops, held, birth, got, batches, tasks,
                   budget, lastCommit, probe, legacy>>

\* for pkg in packages_from_pip + packages_from_importlib: first of a lowercased name wins
RECURSIVE MergeListings(_, _)
MergeListings(listed, acc) ==
    IF listed = <<>> THEN acc
    ELSE MergeListings(Tail(listed),
             IF \E i \in 1..Len(acc) : Lower(acc[i].name) = Lower(Head(listed).name)
             THEN acc ELSE Append(acc, Head(listed)))

\* lines 699-710: lat and stat of the cached entry under the lowercased name;
\* from remembers the installed version that entry recorded (history only)
ApplyCache(pkgs, cached) ==
    [i \in 1..Len(pkgs) |->
        LET p == pkgs[i]
            key == Lower(p.name)
        IN IF key \in DOMAIN cached
           THEN [name |-> p.name, ver |-> p.ver, lat |-> cached[key].lat,
                 stat |-> cached[key].stat, from |-> cached[key].ver]
           ELSE [name |-> p.name, ver |-> p.ver, lat |-> p.lat, stat |-> p.stat,
                 from |-> Absent]]

Discarded(g) == [loads EXCEPT ![g].pc = "done", ![g].outcome = "discarded"]

\* A load task that takes self.lock before it runs pip list: C36 must fail
\* with it.
C36_ListsUnderLock(g) ==
    /\ loads[g].pc = "start"
    /\ LockFree
    /\ lockHolder' = IF _load_generation # g THEN lockHolder ELSE g
    /\ loads' = IF _load_generation # g THEN Discarded(g)
                ELSE [loads EXCEPT ![g].pc = "listed",
                                   ![g].new_packages = PipList(pip_command)]
    /\ UNCHANGED <<engineVars, installed, now, ops, held, birth, got, ui, batches, tasks, budget,
                   lastCommit, probe, legacy>>

\* load_task, lines 654-681: the generation check, then the listing
load_task_list(g) ==
    /\ loads[g].pc = "start"
    /\ loads' = IF _load_generation # g THEN Discarded(g)
                ELSE [loads EXCEPT ![g].pc = "listed",
                                   ![g].new_packages = PipList(pip_command)]
    /\ UNCHANGED <<engineVars, lockHolder, installed, now, ops, held, birth, got, ui, batches, tasks, budget,
                   lastCommit, probe, legacy>>

\* load_task, lines 683-712: generation check, merge, cache, sort
load_task_merge(g) ==
    /\ loads[g].pc = "listed"
    /\ IF _load_generation # g
       THEN /\ loads' = Discarded(g)
            /\ UNCHANGED _packages_cache
       ELSE /\ LockFree
            /\ LET all_packages == MergeListings(loads[g].new_packages, <<>>)
                   cached == _get_cached_packages(_packages_cache, loads[g].env, now)
               IN loads' = [loads EXCEPT ![g].pc = "final",
                                ![g].new_packages = SortByName(ApplyCache(all_packages, cached))]
            /\ _packages_cache' = CacheAfterGet(_packages_cache, loads[g].env, now)
    /\ UNCHANGED <<packages, checking, _load_generation, _check_cancelled, _shutting_down,
                   last_check_time, current_environment_id, pip_command,
                   _consecutive_failures, lockHolder, installed, now, ops, held, birth, got, ui, batches, tasks,
                   budget, lastCommit, probe, legacy>>

\* A final check that lets every cycle through: C3 must fail without the check.
C3_NoFinalCheck(g) == FALSE

\* The generation check a load_task makes under self.lock before it commits.
StaleGeneration(g) == _load_generation # g

\* load_task, lines 714-719: take self.lock, check the generation
load_task_final_check(g) ==
    /\ loads[g].pc = "final"
    /\ LockFree
    /\ IF StaleGeneration(g)
       THEN /\ loads' = Discarded(g)
            /\ UNCHANGED lockHolder
       ELSE /\ loads' = [loads EXCEPT ![g].pc = "commit"]
            /\ lockHolder' = g
    /\ UNCHANGED <<engineVars, installed, now, ops, held, birth, got, ui, batches, tasks, budget, lastCommit, probe, legacy>>

\* A preservation that takes a package nothing is known about for up to date:
\* C15 must fail with it.
C15_InfersUpdated(pkg, current_states, disk_cache) ==
    [pkg EXCEPT !.lat = IF pkg.lat = UnknownV THEN pkg.ver ELSE pkg.lat,
                !.stat = IF pkg.stat = "Unknown" THEN "Updated" ELSE pkg.stat]

\* lines 730-761 for one package: memory first, then the cache, then inference
PreserveOne(pkg, current_states, disk_cache) ==
    LET key == Lower(pkg.name)
        hasCurr == key \in DOMAIN current_states
        hasCached == key \in DOMAIN disk_cache
        best ==
            IF hasCurr /\ current_states[key].ver = pkg.ver
            THEN IF current_states[key].lat # UnknownV
                 THEN <<current_states[key].lat, current_states[key].stat>>
                 ELSE <<UnknownV, "Unknown">>
            ELSE IF hasCached /\ disk_cache[key].ver = pkg.ver
            THEN IF disk_cache[key].lat # UnknownV
                 THEN <<disk_cache[key].lat, disk_cache[key].stat>>
                 ELSE <<UnknownV, "Unknown">>
            ELSE IF hasCached /\ disk_cache[key].lat = pkg.ver
            THEN <<disk_cache[key].lat, "Updated">>
            ELSE <<UnknownV, "Unknown">>
    IN [pkg EXCEPT
           !.lat = IF pkg.lat = UnknownV /\ best[1] # UnknownV THEN best[1] ELSE pkg.lat,
           !.stat = IF pkg.stat = "Unknown" /\ best[2] # "Unknown" THEN best[2] ELSE pkg.stat]

\* current_states: lowercased name -> the in-memory record (a later one wins)
CurrentStates(pkgs) ==
    LET keys == {Lower(pkgs[i].name) : i \in 1..Len(pkgs)}
        last(k) == CHOOSE i \in 1..Len(pkgs) :
                       Lower(pkgs[i].name) = k
                       /\ \A j \in (i + 1)..Len(pkgs) : Lower(pkgs[j].name) # k
    IN [k \in keys |-> pkgs[last(k)]]

StripHistory(pkgs) ==
    [i \in 1..Len(pkgs) |-> Pkg(pkgs[i].name, pkgs[i].ver, pkgs[i].lat, pkgs[i].stat)]

\* load_task, lines 721-767, still under self.lock: preserve, assign, save
load_task_commit(g) ==
    /\ loads[g].pc = "commit"
    /\ lockHolder = g
    /\ LET environment_id == loads[g].env
           preserve == environment_id = current_environment_id
           disk_cache == _get_cached_packages(_packages_cache, environment_id, now)
           cacheRead == IF preserve
                        THEN CacheAfterGet(_packages_cache, environment_id, now)
                        ELSE _packages_cache
           merged == IF preserve
                     THEN [i \in 1..Len(loads[g].new_packages) |->
                              PreserveOne(loads[g].new_packages[i],
                                          CurrentStates(packages), disk_cache)]
                     ELSE loads[g].new_packages
           new_packages == StripHistory(merged)
       IN IF _shutting_down
          THEN /\ loads' = [loads EXCEPT ![g].pc = "done", ![g].outcome = "suppressed"]
               /\ _packages_cache' = cacheRead
               /\ UNCHANGED <<packages, lastCommit, held>>
          ELSE /\ loads' = [loads EXCEPT ![g].pc = "done", ![g].outcome = "committed"]
               /\ packages' = new_packages
               /\ _packages_cache' =
                      _save_packages_to_cache(cacheRead, environment_id, new_packages, now)
               /\ lastCommit' = g
               /\ held' = HeldAfterDrop({Lower(packages[i].name) : i \in 1..Len(packages)})
    /\ lockHolder' = 0
    /\ UNCHANGED <<checking, _load_generation, _check_cancelled, _shutting_down,
                   last_check_time, current_environment_id, pip_command,
                   _consecutive_failures, installed, now, ops, birth, got, ui, batches, tasks,
                   budget, probe, legacy>>

\* ------------------------------------------------------------ check_updates
\* The next unused slot of batches: one per check_updates call.
FreeBatch(b) == batches[b].pc = "none" /\ \A c \in BatchIds : c < b => batches[c].pc # "none"

\* The guard of check_updates (line 151): a check is already in progress.
AlreadyChecking == checking

check_updates(b) ==
    /\ FreeBatch(b)
    /\ budget.checks > 0
    /\ budget' = [budget EXCEPT !.checks = @ - 1]
    /\ ~_shutting_down => LockFree
    /\ IF _shutting_down \/ AlreadyChecking
       THEN /\ batches' = [batches EXCEPT ![b].pc = "done", ![b].finished = 1]
            /\ UNCHANGED <<checking, _check_cancelled>>
       ELSE /\ checking' = TRUE
            /\ _check_cancelled' = FALSE
            /\ batches' = [batches EXCEPT ![b].pc = "snapshot", ![b].started = 1,
                                             ![b].gen = _load_generation]
    /\ UNCHANGED <<packages, _load_generation, _shutting_down, last_check_time,
                   _packages_cache, current_environment_id, pip_command,
                   _consecutive_failures, lockHolder, installed, now, ops, held, birth, got, ui, loads, tasks,
                   lastCommit, probe, legacy>>

\* the cache after the save of lines 302-303
SaveCurrent ==
    IF current_environment_id # NoEnv /\ ~_shutting_down
    THEN _save_packages_to_cache(_packages_cache, current_environment_id, packages, now)
    ELSE _packages_cache

\* _check_updates_safe_parallel, lines 175-204
batch_snapshot(b) ==
    /\ batches[b].pc = "snapshot"
    /\ LockFree
    /\ LET packages_to_check == [i \in 1..Len(packages) |->
                                    [name |-> packages[i].name, ver |-> packages[i].ver]]
       IN IF Len(packages_to_check) = 0
          THEN /\ batches' = [batches EXCEPT ![b].pc = "empty", ![b].commit = lastCommit]
               /\ UNCHANGED _consecutive_failures
          ELSE /\ batches' = [batches EXCEPT ![b].pc = "submit", ![b].idx = 1,
                                             ![b].todo = packages_to_check,
                                             ![b].commit = lastCommit]
               /\ _consecutive_failures' = 0
    /\ UNCHANGED <<packages, checking, _load_generation, _check_cancelled, _shutting_down,
                   last_check_time, _packages_cache, current_environment_id, pip_command,
                   lockHolder, installed, now, ops, held, birth, got, ui, loads, tasks, budget, lastCommit, probe, legacy>>

\* lines 179-181: total == 0, the finish callback
batch_empty_finish(b) ==
    /\ batches[b].pc = "empty"
    /\ batches' = [batches EXCEPT ![b].pc = "emptyclean", ![b].finished = @ + 1]
    /\ UNCHANGED <<engineVars, lockHolder, installed, now, ops, held, birth, got, ui, loads, tasks, budget,
                   lastCommit, probe, legacy>>

\* An empty-list path whose finally block reaches line 311: C9 must fail with it.
C9_EmptyReachesFinish == "finish"

\* Where the empty-list path ends: start_time was never assigned on it, so the
\* log line of the finally block (line 309) raises and line 311 is not reached.
AfterEmptyCleanup == "crashed"

\* lines 182-184, then the finally block, lines 300-309
batch_empty_cleanup(b) ==
    /\ batches[b].pc = "emptyclean"
    /\ LockFree
    /\ checking' = FALSE
    /\ _packages_cache' = SaveCurrent
    /\ batches' = [batches EXCEPT ![b].pc = AfterEmptyCleanup]
    /\ UNCHANGED <<packages, _load_generation, _check_cancelled, _shutting_down,
                   last_check_time, current_environment_id, pip_command,
                   _consecutive_failures, lockHolder, installed, now, ops, held, birth, got, ui, loads, tasks,
                   budget, lastCommit, probe, legacy>>

\* the submission loop, lines 210-258, one iteration
batch_submit(b) ==
    /\ batches[b].pc = "submit"
    /\ IF batches[b].idx > Len(batches[b].todo) \/ _shutting_down \/ _check_cancelled
       THEN /\ batches' = [batches EXCEPT ![b].pc = "collect"]
            /\ UNCHANGED tasks
       ELSE /\ tasks' = (<<b, batches[b].idx>> :>
                            NewTask(batches[b].todo[batches[b].idx].name,
                                    batches[b].todo[batches[b].idx].ver, FALSE, "pending"))
                        @@ tasks
            /\ batches' = [batches EXCEPT ![b].idx = @ + 1]
    /\ UNCHANGED <<engineVars, lockHolder, installed, now, ops, held, birth, got, ui, loads, budget, lastCommit, probe, legacy>>

Submitted(b) == {i \in 1..Len(batches[b].todo) : <<b, i>> \in DOMAIN tasks}
Finished(t) == tasks[t].pc \in {"done", "cancelled"}

\* The counter after a future's result, lines 271-277: result() raises only for
\* a cancelled future, since _check_single_package_simple catches everything.
FailuresAfter(t) == IF tasks[t].pc = "cancelled" THEN _consecutive_failures + 1 ELSE 0

\* the as_completed loop, lines 262-286, one future
batch_collect(b, i) ==
    /\ batches[b].pc = "collect"
    /\ i \in Submitted(b) \ batches[b].yielded
    /\ Finished(<<b, i>>)
    /\ IF _shutting_down \/ _check_cancelled
       THEN /\ batches' = [batches EXCEPT ![b].pc = "cleanup"]
            /\ UNCHANGED <<_consecutive_failures, tasks>>
       ELSE /\ _consecutive_failures' = FailuresAfter(<<b, i>>)
            /\ IF FailuresAfter(<<b, i>>) >= _consecutive_failures_threshold
               THEN /\ batches' = [batches EXCEPT ![b].pc = "cleanup"]
                    /\ tasks' = [t \in DOMAIN tasks |->
                                    IF t[1] = b /\ tasks[t].pc = "pending"
                                    THEN [tasks[t] EXCEPT !.pc = "cancelled"]
                                    ELSE tasks[t]]
               ELSE /\ batches' = [batches EXCEPT ![b].yielded = @ \cup {i}]
                    /\ UNCHANGED tasks
    /\ UNCHANGED <<packages, checking, _load_generation, _check_cancelled, _shutting_down,
                   last_check_time, _packages_cache, current_environment_id, pip_command,
                   lockHolder, installed, now, ops, held, birth, got, ui, loads, budget, lastCommit, probe, legacy>>

\* as_completed has yielded every future
batch_collect_end(b) ==
    /\ batches[b].pc = "collect"
    /\ batches[b].yielded = Submitted(b)
    /\ batches' = [batches EXCEPT ![b].pc = "cleanup"]
    /\ UNCHANGED <<engineVars, lockHolder, installed, now, ops, held, birth, got, ui, loads, tasks, budget,
                   lastCommit, probe, legacy>>

\* as_completed raises TimeoutError (global_timeout) while futures are unfinished
batch_timeout(b) ==
    /\ batches[b].pc = "collect"
    /\ \E i \in Submitted(b) : ~Finished(<<b, i>>)
    /\ batches' = [batches EXCEPT ![b].pc = "cleanup"]
    /\ UNCHANGED <<engineVars, lockHolder, installed, now, ops, held, birth, got, ui, loads, tasks, budget,
                   lastCommit, probe, legacy>>

\* A cleanup that leaves self.checking as it is: C39 must fail with it.
C39_CleanupKeepsFlag(b) ==
    /\ batches[b].pc = "cleanup"
    /\ LockFree
    /\ _packages_cache' = SaveCurrent
    /\ batches' = [batches EXCEPT ![b].pc = "finish"]
    /\ UNCHANGED <<packages, checking, _load_generation, _check_cancelled, _shutting_down,
                   last_check_time, current_environment_id, pip_command,
                   _consecutive_failures, lockHolder, installed, now, ops, held, birth, got, ui, loads, tasks,
                   budget, lastCommit, probe, legacy>>

\* the flush of line 295 (the batch list is never filled) and the finally block,
\* lines 300-307
batch_cleanup(b) ==
    /\ batches[b].pc = "cleanup"
    /\ LockFree
    /\ checking' = FALSE
    /\ _packages_cache' = SaveCurrent
    /\ batches' = [batches EXCEPT ![b].pc = "finish"]
    /\ UNCHANGED <<packages, _load_generation, _check_cancelled, _shutting_down,
                   last_check_time, current_environment_id, pip_command,
                   _consecutive_failures, lockHolder, installed, now, ops, held, birth, got, ui, loads, tasks,
                   budget, lastCommit, probe, legacy>>

\* lines 310-311
batch_finish(b) ==
    /\ batches[b].pc = "finish"
    /\ batches' = [batches EXCEPT ![b].pc = "done",
                                  ![b].finished = IF _shutting_down THEN @ ELSE @ + 1]
    /\ UNCHANGED <<engineVars, lockHolder, installed, now, ops, held, birth, got, ui, loads, tasks, budget,
                   lastCommit, probe, legacy>>

\* ------------------------------------------- _check_single_package_simple
Cancelled == _shutting_down \/ _check_cancelled

\* the status the rate limiter reads, lines 493-497
CurrentStatus(pkg_name) ==
    IF IndexOf(packages, pkg_name) = 0 THEN "Unknown"
    ELSE packages[IndexOf(packages, pkg_name)].stat

\* A rate limit that ignores the Unknown exception and the force flag: C7 must
\* fail with it.
C7_LimitByTimeOnly(pkg_name, force) ==
    /\ last_check_time[pkg_name] # -1
    /\ now - last_check_time[pkg_name] < rate_limit_seconds

\* The rate limit of lines 489-500: the check is skipped.
RateLimited(pkg_name, force) ==
    /\ ~force
    /\ CurrentStatus(pkg_name) # "Unknown"
    /\ last_check_time[pkg_name] # -1
    /\ now - last_check_time[pkg_name] < rate_limit_seconds

\* the runs the executor's worker threads are in
Running == {t \in DOMAIN tasks : t[1] # 0 /\ tasks[t].pc \in {"fetch", "inflight", "write"}}

Notify(t) == IF t[1] = 0 THEN batches
             ELSE [batches EXCEPT ![t[1]].notified = @ + 1]

\* A worker takes the run from the executor's queue (in submission order) and
\* runs lines 483-506: the cancellation check and the rate limit.
task_start(t) ==
    /\ tasks[t].pc = "pending"
    /\ t[1] # 0 => /\ Cardinality(Running) < max_workers
                   /\ \A u \in DOMAIN tasks :
                          (u[1] = t[1] /\ u[2] < t[2]) => tasks[u].pc # "pending"
    /\ IF Cancelled
       THEN /\ tasks' = [tasks EXCEPT ![t].pc = "done", ![t].result = FALSE]
            /\ UNCHANGED <<last_check_time, batches>>
       ELSE IF tasks[t].force
       THEN /\ tasks' = [tasks EXCEPT ![t].pc = "fetch"]
            /\ UNCHANGED <<last_check_time, batches>>
       ELSE /\ LockFree
            /\ IF RateLimited(tasks[t].name, tasks[t].force)
               THEN /\ tasks' = [tasks EXCEPT ![t].pc = "done", ![t].result = TRUE]
                    /\ batches' = Notify(t)
                    /\ UNCHANGED last_check_time
               ELSE /\ tasks' = [tasks EXCEPT ![t].pc = "fetch"]
                    /\ last_check_time' = [last_check_time EXCEPT ![tasks[t].name] = now]
                    /\ UNCHANGED batches
    /\ UNCHANGED <<packages, checking, _load_generation, _check_cancelled, _shutting_down,
                   _packages_cache, current_environment_id, pip_command,
                   _consecutive_failures, lockHolder, installed, now, ops, held, birth, got, ui, loads, budget,
                   lastCommit, probe, legacy>>

\* _fetch_package_info, lines 439-450: the top of an attempt, up to urlopen
task_request(t) ==
    /\ tasks[t].pc = "fetch"
    /\ tasks' = IF Cancelled
                THEN [tasks EXCEPT ![t].pc = "write", ![t].latest = UnknownV]
                ELSE [tasks EXCEPT ![t].pc = "inflight"]
    /\ UNCHANGED <<engineVars, lockHolder, installed, now, ops, held, birth, got, ui, loads, batches, budget,
                   lastCommit, probe, legacy>>

\* A fetch that also tries again after a 404: C22 must fail with it.
C22_RetriesNotFound(t, outcome) ==
    tasks[t].attempt < max_retries - 1 /\ ~Cancelled

\* lines 462-476: another attempt is made after an error other than a 404,
\* unless this was the last attempt or the check is cancelled
Retries(t, outcome) ==
    /\ outcome = "error"
    /\ tasks[t].attempt < max_retries - 1
    /\ ~Cancelled

\* _fetch_package_info, lines 450-479: the answer to the request
task_response(t, outcome) ==
    /\ tasks[t].pc = "inflight"
    /\ outcome = "error" => budget.net > 0
    /\ tasks' =
         IF outcome = "ok"
         THEN [tasks EXCEPT ![t].pc = "write", ![t].answer = outcome,
                            ![t].latest = RegistryVersion(tasks[t].name)]
         ELSE IF Retries(t, outcome)
         THEN [tasks EXCEPT ![t].pc = "fetch", ![t].answer = outcome, ![t].attempt = @ + 1]
         ELSE [tasks EXCEPT ![t].pc = "write", ![t].answer = outcome,
                            ![t].latest = UnknownV]
    /\ budget' = IF outcome = "error" THEN [budget EXCEPT !.net = @ - 1] ELSE budget
    /\ UNCHANGED <<engineVars, lockHolder, installed, now, ops, held, birth, got, ui, loads, batches, lastCommit, probe, legacy>>

\* lines 514-553: the status, the write into the list by name, the notification
task_write(t) ==
    /\ tasks[t].pc = "write"
    /\ LockFree
    /\ LET i == IndexOf(packages, tasks[t].name)
           status == StatusFor(tasks[t].ver, tasks[t].latest)
           failed == tasks[t].latest = UnknownV
       IN /\ packages' = IF i = 0 THEN packages
                         ELSE [packages EXCEPT ![i].lat = tasks[t].latest,
                                               ![i].stat = status]
          /\ batches' = IF t[1] = 0 THEN batches
                        ELSE [batches EXCEPT
                                 ![t[1]].notified = IF i = 0 THEN @ ELSE @ + 1,
                                 ![t[1]].failrun = IF failed THEN @ + 1 ELSE 0]
          /\ tasks' = [tasks EXCEPT ![t].pc = "done", ![t].answer = "none",
                                    ![t].result = (t[1] # 0 \/ (i # 0 /\ ~failed))]
    /\ UNCHANGED <<checking, _load_generation, _check_cancelled, _shutting_down,
                   last_check_time, _packages_cache, current_environment_id, pip_command,
                   _consecutive_failures, lockHolder, installed, now, ops, held, birth, got, ui, loads, budget,
                   lastCommit, probe, legacy>>

\* ------------------------------------------------------ check_single_package
\* lines 329-332 and 424-434: callback(False, "Shutting down") and no thread
\* (the run is recorded as refused), or the thread is started
check_single_package(pkg_name) ==
    /\ budget.singles > 0
    /\ budget' = [budget EXCEPT !.singles = @ - 1]
    /\ tasks' = (<<0, budget.singles>> :>
                    IF _shutting_down
                    THEN NewTask(pkg_name, Absent, TRUE, "refused")
                    ELSE NewTask(pkg_name, Absent, TRUE, "lookup")) @@ tasks
    /\ UNCHANGED <<engineVars, lockHolder, installed, now, ops, held, birth, got, ui, loads, batches, lastCommit, probe, legacy>>

\* pip show of a name in the environment of the pip command: the version of the
\* installed distribution of that name, letter case aside (pip compares
\* canonical names), or Absent when pip show returns non-zero
PipShow(e, pkg_name) ==
    LET found == {m \in DOMAIN installed[e] :
                     Lower(m) = Lower(pkg_name) /\ installed[e][m] # Absent}
    IN IF found = {} THEN Absent ELSE installed[e][CHOOSE m \in found : TRUE]

\* check_task, lines 338-345: the package of exactly this name, under self.lock
check_task_lookup(t) ==
    /\ tasks[t].pc = "lookup"
    /\ LockFree
    /\ LET i == IndexOf(packages, tasks[t].name)
       IN tasks' = IF i # 0
                   THEN [tasks EXCEPT ![t].pc = "pending", ![t].ver = packages[i].ver]
                   ELSE [tasks EXCEPT ![t].pc = "show"]
    /\ UNCHANGED <<engineVars, lockHolder, installed, now, ops, held, birth, got, ui, loads, batches,
                   budget, lastCommit, probe, legacy>>

\* A discovery that adds the package whatever pip show returned: C24 must fail
\* with it.
C24_AddsUnfound(answered, shown) == TRUE

\* line 361: pip show ran and returned 0
Discovered(answered, shown) == answered /\ shown # Absent

\* check_task, lines 347-392: pip show, no lock held; the subprocess answers,
\* or raises (the 5 second timeout, a missing executable)
check_task_show(t, answered) ==
    /\ tasks[t].pc = "show"
    /\ LET shown == PipShow(pip_command, tasks[t].name)
       IN tasks' = IF Discovered(answered, shown)
                   THEN [tasks EXCEPT ![t].pc = "add", ![t].ver = shown]
                   ELSE [tasks EXCEPT ![t].pc = "done", ![t].result = FALSE]
    /\ UNCHANGED <<engineVars, lockHolder, installed, now, ops, held, birth, got, ui, loads, batches,
                   budget, lastCommit, probe, legacy>>

\* check_task, lines 369-381: under self.lock, append unless the exact name is
\* there by now, and sort
check_task_add(t) ==
    /\ tasks[t].pc = "add"
    /\ LockFree
    /\ packages' = IF IndexOf(packages, tasks[t].name) # 0 THEN packages
                   ELSE SortByName(Append(packages,
                            Pkg(tasks[t].name, tasks[t].ver, UnknownV, "Unknown")))
    /\ tasks' = [tasks EXCEPT ![t].pc = "pending"]
    /\ UNCHANGED <<checking, _load_generation, _check_cancelled, _shutting_down,
                   last_check_time, _packages_cache, current_environment_id, pip_command,
                   _consecutive_failures, lockHolder, installed, now, ops, held, birth, got, ui, loads, batches,
                   budget, lastCommit, probe, legacy>>

\* ------------------------------------------- cancel, finish_check, shutdown
\* The value cancel_check leaves in self.checking (line 584).
CheckingAfterCancel == FALSE

cancel_check ==
    /\ LockFree
    /\ _check_cancelled' = TRUE
    /\ checking' = CheckingAfterCancel
    /\ batches' = [b \in BatchIds |->
                      IF ActiveBatch(b) THEN [batches[b] EXCEPT !.cancelled = TRUE]
                      ELSE batches[b]]
    /\ UNCHANGED <<packages, _load_generation, _shutting_down, last_check_time,
                   _packages_cache, current_environment_id, pip_command,
                   _consecutive_failures, lockHolder, installed, now, ops, held, birth, got, ui, loads, tasks,
                   budget, lastCommit, probe, legacy>>

finish_check ==
    /\ LockFree
    /\ checking
    /\ checking' = FALSE
    /\ UNCHANGED <<packages, _load_generation, _check_cancelled, _shutting_down,
                   last_check_time, _packages_cache, current_environment_id, pip_command,
                   _consecutive_failures, lockHolder, installed, now, ops, held, birth, got, ui, loads, batches,
                   tasks, budget, lastCommit, probe, legacy>>

\* shutdown, lines 98-117: the flags, then every tracked future is cancelled
shutdown ==
    /\ ~_shutting_down
    /\ LockFree
    /\ _shutting_down' = TRUE
    /\ _check_cancelled' = TRUE
    /\ tasks' = [t \in DOMAIN tasks |->
                    IF t[1] # 0 /\ tasks[t].pc = "pending"
                    THEN [tasks[t] EXCEPT !.pc = "cancelled"]
                    ELSE tasks[t]]
    /\ UNCHANGED <<packages, checking, _load_generation, last_check_time, _packages_cache,
                   current_environment_id, pip_command, _consecutive_failures, lockHolder,
                   installed, now, ops, held, birth, got, ui, loads, batches, budget, lastCommit, probe, legacy>>

\* ------------------------------------------------------------- environment
Tick ==
    /\ budget.ticks > 0
    /\ now' = now + TickSeconds
    /\ budget' = [budget EXCEPT !.ticks = @ - 1]
    /\ UNCHANGED <<engineVars, lockHolder, installed, ui, loads, batches, tasks, lastCommit,
                   ops, held, birth, got, probe, legacy>>

\* The package manager's view of an environment changes: pip upgrades an
\* installed package to the registry's version.
PipChange(e, n) ==
    /\ budget.pip > 0
    /\ installed[e][n] \notin {Absent, RegistryVersion(n)}
    /\ installed' = [installed EXCEPT ![e][n] = RegistryVersion(n)]
    /\ budget' = [budget EXCEPT !.pip = @ - 1]
    /\ UNCHANGED <<engineVars, lockHolder, now, ops, held, birth, got, ui, loads, batches, tasks, lastCommit, probe, legacy>>

\* ------------------------------------------------- the read-side calls
\* the list a caller now holds: a new list of the dicts of self.packages
Handed(pkgs) ==
    [has |-> TRUE, taken |-> pkgs, frozen |-> pkgs, live |-> [i \in 1..Len(pkgs) |-> TRUE]]

\* refresh_packages_data, lines 1420-1427: list(self.packages) under self.lock
refresh_packages_data ==
    /\ budget.snaps > 0
    /\ LockFree
    /\ budget' = [budget EXCEPT !.snaps = @ - 1]
    /\ held' = Handed(packages)
    /\ UNCHANGED <<engineVars, lockHolder, installed, now, ops, birth, got, ui, loads,
                   batches, tasks, lastCommit, probe, legacy>>

\* filter_packages, lines 1429-1441: the dicts of the copy that have the status
filter_packages(mode) ==
    /\ budget.snaps > 0
    /\ LockFree
    /\ budget' = [budget EXCEPT !.snaps = @ - 1]
    /\ held' = Handed(IF mode = "All" THEN packages
                      ELSE SelectSeq(packages, LAMBDA p : p.stat = mode))
    /\ UNCHANGED <<engineVars, lockHolder, installed, now, ops, birth, got, ui, loads,
                   batches, tasks, lastCommit, probe, legacy>>

\* -------------------------------------------------- install and uninstall
\* the names the callers of install and uninstall pass
OpNames == {"A", "b"}
\* the version a caller asks for: none, or "2"
V2 == <<"2">>
Requested == {Absent, V2}
\* the environment of the interpreter the engine runs in (importlib.metadata)
Host == "e1"
PipError == "pip error"

\* The version pip installs: the registry's latest when none is requested,
\* otherwise the release the requested specifier names ("2" names 2.0).
PipInstalls(n, version) ==
    IF version = Absent \/ version = UnknownV THEN RegistryVersion(n)
    ELSE IF version = V2 THEN V20 ELSE version

NewOp(k, n, v, p) ==
    [kind |-> k, name |-> n, version |-> v, pc |-> p, env |-> NoEnv, pipres |-> "none",
     shown |-> Absent, truth |-> Absent, latest |-> Absent, wrote |-> Absent,
     callback |-> <<>>]

\* install_pypi_package, lines 1221-1224 and 1274
install_pypi_package(package_name, version) ==
    /\ budget.ops > 0
    /\ budget' = [budget EXCEPT !.ops = @ - 1]
    /\ ops' = (budget.ops :>
                 IF _shutting_down
                 THEN [NewOp("install", package_name, version, "done")
                          EXCEPT !.callback = <<FALSE, "Shutting down">>]
                 ELSE NewOp("install", package_name, version, "pip")) @@ ops
    /\ UNCHANGED <<engineVars, lockHolder, installed, now, held, birth, got, ui, loads, batches,
                   tasks, lastCommit, probe, legacy>>

\* uninstall_package, lines 1278-1281 and 1319
uninstall_package(package_name) ==
    /\ budget.ops > 0
    /\ budget' = [budget EXCEPT !.ops = @ - 1]
    /\ ops' = (budget.ops :>
                 IF _shutting_down
                 THEN [NewOp("uninstall", package_name, Absent, "done")
                          EXCEPT !.callback = <<FALSE, "Shutting down">>]
                 ELSE NewOp("uninstall", package_name, Absent, "pip")) @@ ops
    /\ UNCHANGED <<engineVars, lockHolder, installed, now, held, birth, got, ui, loads, batches,
                   tasks, lastCommit, probe, legacy>>

\* clear_rate_limit, lines 1483-1487: pop the exact name
clear_rate_limit(times, pkg_name) ==
    IF pkg_name \in DOMAIN times THEN [times EXCEPT ![pkg_name] = -1] ELSE times

\* A thread that goes on after pip whatever pip reported: C11 must fail with it.
C11_IgnoresFailure(kind, success) == IF kind = "install" THEN "query" ELSE "remove"

\* Where the thread goes after pip: lines 1251-1255 and 1297-1302.
AfterPip(kind, success) ==
    IF ~success THEN "report"
    ELSE IF kind = "install" THEN "query" ELSE "remove"

\* install_task, lines 1237-1254, and uninstall_task, lines 1288-1298: pip runs
\* in the environment of the pip command; a successful install clears the rate
\* limit of the name.
op_pip(o, success) ==
    /\ ops[o].pc = "pip"
    /\ LockFree
    /\ LET op == ops[o]
           key == Lower(op.name)
       IN /\ ops' = [ops EXCEPT ![o].pc = AfterPip(op.kind, success),
                                ![o].env = pip_command,
                                ![o].pipres = IF success THEN "ok" ELSE "fail"]
          /\ installed' =
                IF ~success THEN installed
                ELSE IF op.kind = "install"
                THEN [installed EXCEPT ![pip_command][key] = PipInstalls(key, op.version)]
                ELSE [installed EXCEPT ![pip_command][key] = Absent]
          /\ last_check_time' =
                IF success /\ op.kind = "install"
                THEN clear_rate_limit(last_check_time, op.name)
                ELSE last_check_time
    /\ UNCHANGED <<packages, checking, _load_generation, _check_cancelled, _shutting_down,
                   _packages_cache, current_environment_id, pip_command,
                   _consecutive_failures, lockHolder, now, held, birth, got, ui, loads, batches,
                   tasks, budget, lastCommit, probe, legacy>>

\* _update_after_install, lines 1333-1348 and 1377-1383: pip show in the target
\* environment, or, when it gives no version, importlib.metadata of the host
\* interpreter; then the latest version from the registry.
op_query(o, answered, outcome) ==
    /\ ops[o].pc = "query"
    /\ LET op == ops[o]
           key == Lower(op.name)
           target == installed[op.env][key]
           host == installed[Host][key]
           shown == IF answered /\ target # Absent THEN target ELSE host
           latest == IF outcome = "ok" /\ ~(_shutting_down \/ _check_cancelled)
                     THEN RegistryVersion(key) ELSE UnknownV
       IN ops' = [ops EXCEPT ![o].pc = IF shown = Absent THEN "report" ELSE "write",
                             ![o].truth = target,
                             ![o].shown = shown,
                             ![o].latest = IF shown = Absent THEN Absent ELSE latest]
    /\ UNCHANGED <<engineVars, lockHolder, installed, now, held, birth, got, ui, loads, batches,
                   tasks, budget, lastCommit, probe, legacy>>

\* index of the first package whose lowercased name is that of n, 0 when none
IndexOfLower(pkgs, n) ==
    IF \E i \in 1..Len(pkgs) : Lower(pkgs[i].name) = Lower(n)
    THEN CHOOSE i \in 1..Len(pkgs) :
             Lower(pkgs[i].name) = Lower(n)
             /\ \A j \in 1..(i - 1) : Lower(pkgs[j].name) # Lower(n)
    ELSE 0

\* _update_after_install, lines 1350-1371 (1385-1406): the status, then the
\* record of the name is updated in place, or appended and the list sorted
op_write(o) ==
    /\ ops[o].pc = "write"
    /\ LockFree
    /\ LET op == ops[o]
           status == IF ~is_outdated(op.shown, op.latest) THEN "Updated" ELSE "Outdated"
           i == IndexOfLower(packages, op.name)
       IN packages' =
            IF i # 0
            THEN [packages EXCEPT ![i].ver = op.shown, ![i].lat = op.latest,
                                  ![i].stat = status]
            ELSE SortByName(Append(packages, Pkg(op.name, op.shown, op.latest, status)))
    /\ ops' = [ops EXCEPT ![o].pc = "report", ![o].wrote = ops[o].shown]
    /\ UNCHANGED <<checking, _load_generation, _check_cancelled, _shutting_down,
                   last_check_time, _packages_cache, current_environment_id, pip_command,
                   _consecutive_failures, lockHolder, installed, now, held, birth, got, ui, loads,
                   batches, tasks, budget, lastCommit, probe, legacy>>

\* An uninstall that removes the exact name only: C19 must fail with it.
C19_RemoveExactName(pkgs, package_name) ==
    SelectSeq(pkgs, LAMBDA p : p.name # package_name)

\* line 1302: the list without the packages of that lowercased name
Remaining(pkgs, package_name) ==
    SelectSeq(pkgs, LAMBDA p : Lower(p.name) # Lower(package_name))

\* uninstall_task, lines 1300-1303
op_remove(o) ==
    /\ ops[o].pc = "remove"
    /\ LockFree
    /\ packages' = Remaining(packages, ops[o].name)
    /\ held' = HeldAfterDrop({Lower(packages[i].name) : i \in 1..Len(packages)}
                             \ {Lower(packages'[i].name) : i \in 1..Len(packages')})
    /\ ops' = [ops EXCEPT ![o].pc = "report"]
    /\ UNCHANGED <<checking, _load_generation, _check_cancelled, _shutting_down,
                   last_check_time, _packages_cache, current_environment_id, pip_command,
                   _consecutive_failures, lockHolder, installed, now, birth, got, ui, loads,
                   batches, tasks, budget, lastCommit, probe, legacy>>

\* lines 1260-1272 and 1305-1317: the completion callback, unless shutting down
op_report(o) ==
    /\ ops[o].pc = "report"
    /\ ops' = [ops EXCEPT ![o].pc = "done",
                          ![o].callback =
                              IF _shutting_down THEN <<>>
                              ELSE IF ops[o].pipres = "ok" THEN <<TRUE, ops[o].kind>>
                              ELSE <<FALSE, PipError>>]
    /\ UNCHANGED <<engineVars, lockHolder, installed, now, held, birth, got, ui, loads, batches,
                   tasks, budget, lastCommit, probe, legacy>>

\* ------------------------------------------------------------ specification
LoadActions ==
    \/ \E e \in Envs, f \in BOOLEAN : load_packages_with_cache_enter(e, f)
    \/ load_packages_with_cache_submit
    \/ \E g \in LoadIds : load_task_list(g)
    \/ \E g \in LoadIds : load_task_merge(g)
    \/ \E g \in LoadIds : load_task_final_check(g)
    \/ \E g \in LoadIds : load_task_commit(g)

BatchActions ==
    \/ \E b \in BatchIds : check_updates(b)
    \/ \E b \in BatchIds : batch_snapshot(b)
    \/ \E b \in BatchIds : batch_submit(b)
    \/ \E b \in BatchIds : \E i \in 1..Len(batches[b].todo) : batch_collect(b, i)
    \/ \E b \in BatchIds : batch_collect_end(b)
    \/ \E b \in BatchIds : batch_timeout(b)
    \/ \E b \in BatchIds : batch_cleanup(b)
    \/ \E b \in BatchIds : batch_finish(b)
    \/ \E t \in DOMAIN tasks : task_start(t)
    \/ \E t \in DOMAIN tasks : task_request(t)
    \/ \E t \in DOMAIN tasks : task_write(t)

EmptyBatchActions ==
    \/ \E b \in BatchIds : batch_empty_finish(b)
    \/ \E b \in BatchIds : batch_empty_cleanup(b)

\* Loads, one check batch, shutdown and changes of the installed packages.
Next ==
    \/ LoadActions
    \/ BatchActions
    \/ EmptyBatchActions
    \/ \E t \in DOMAIN tasks : \E o \in {"ok", "notfound"} : task_response(t, o)
    \/ shutdown
    \/ \E e \in Envs, n \in Names : PipChange(e, n)

Spec == Init /\ [][Next]_vars

\* The engine after the first load of environment e1 has committed.
Loaded ==
    LET listed == Listing(InitInstalled["e1"])
    IN /\ packages = listed
       /\ checking = FALSE
       /\ _load_generation = 1
       /\ _check_cancelled = FALSE
       /\ _shutting_down = FALSE
       /\ last_check_time = [n \in AllNames |-> -1]
       /\ _packages_cache = _save_packages_to_cache(<<>>, "e1", listed, 0)
       /\ current_environment_id = "e1"
       /\ pip_command = "e1"
       /\ _consecutive_failures = 0
       /\ lockHolder = 0
       /\ installed = InitInstalled
       /\ now = 0
       /\ ops = <<>>
       /\ held = NoHeld
       /\ birth = NoBirth
       /\ got = NoGot
       /\ legacy = NoLegacy
       /\ probe = NoProbe
       /\ ui = [pc |-> "idle", env |-> NoEnv, force |-> FALSE, after |-> {}]
       /\ loads = [g \in LoadIds |->
                     IF g = 1
                     THEN [pc |-> "done", env |-> "e1", outcome |-> "committed",
                           new_packages |-> ApplyCache(listed, <<>>), after |-> {}]
                     ELSE NoLoad]
       /\ batches = [b \in BatchIds |-> NoBatch]
       /\ tasks = <<>>
       /\ lastCommit = 1

\* Check batches with cancellation, finish_check, shutdown and network errors,
\* on an empty list and on a loaded one.
InitCheck ==
    /\ Fresh \/ Loaded
    /\ budget = [loads |-> 0, checks |-> MaxChecks, singles |-> 0,
                 pip |-> 0, net |-> MaxNetErrors, ticks |-> 0,
                 ops |-> 0, snaps |-> 0, saves |-> 0, gets |-> 0]

NextCheck ==
    \/ BatchActions
    \/ EmptyBatchActions
    \/ \E t \in DOMAIN tasks : \E o \in {"ok", "notfound", "error"} : task_response(t, o)
    \/ cancel_check
    \/ finish_check
    \/ shutdown

SpecCheck == InitCheck /\ [][NextCheck]_vars

\* Check batches and a forced single check of the listed package while the
\* clock advances.
InitRate ==
    /\ Loaded
    /\ budget = [loads |-> 0, checks |-> MaxChecks, singles |-> MaxSingles,
                 pip |-> 0, net |-> 0, ticks |-> MaxTicks,
                 ops |-> 0, snaps |-> 0, saves |-> 0, gets |-> 0]

NextRate ==
    \/ BatchActions
    \/ \E t \in DOMAIN tasks : \E o \in {"ok", "notfound"} : task_response(t, o)
    \/ check_single_package("a")
    \/ \E t \in DOMAIN tasks : check_task_lookup(t)
    \/ cancel_check
    \/ Tick

SpecRate == InitRate /\ [][NextRate]_vars

\* A check batch on the loaded environment while the caller cancels and loads
\* an environment.
InitSwitch ==
    /\ Loaded
    /\ budget = [loads |-> SwitchLoads, checks |-> SwitchChecks, singles |-> 0,
                 pip |-> 0, net |-> 0, ticks |-> 0,
                 ops |-> 0, snaps |-> MaxSnaps, saves |-> 0, gets |-> 0]

NextSwitch ==
    \/ LoadActions
    \/ refresh_packages_data
    \/ \E mode \in {"All", "Outdated", "Updated"} : filter_packages(mode)
    \/ BatchActions
    \/ \E t \in DOMAIN tasks : \E o \in {"ok", "notfound"} : task_response(t, o)
    \/ cancel_check
    \/ shutdown

SpecSwitch == InitSwitch /\ [][NextSwitch]_vars

\* One check batch over a list of BreakerPkgs packages while the registry gives
\* no version for any of them; the executor runs one check at a time.
BreakerList ==
    [i \in 1..BreakerPkgs |-> Pkg(BreakerNames[i], V10, UnknownV, "Unknown")]

InitBreaker ==
    /\ packages = BreakerList
    /\ checking = FALSE
    /\ _load_generation = 1
    /\ _check_cancelled = FALSE
    /\ _shutting_down = FALSE
    /\ last_check_time = [n \in AllNames |-> -1]
    /\ _packages_cache = _save_packages_to_cache(<<>>, "e1", BreakerList, 0)
    /\ current_environment_id = "e1"
    /\ pip_command = "e1"
    /\ _consecutive_failures = 0
    /\ lockHolder = 0
    /\ installed = InitInstalled
    /\ now = 0
    /\ ops = <<>>
    /\ held = NoHeld
    /\ birth = NoBirth
    /\ got = NoGot
    /\ legacy = NoLegacy
    /\ probe = NoProbe
    /\ ui = [pc |-> "idle", env |-> NoEnv, force |-> FALSE, after |-> {}]
    /\ loads = [g \in LoadIds |->
                  IF g = 1
                  THEN [pc |-> "done", env |-> "e1", outcome |-> "committed",
                        new_packages |-> ApplyCache(BreakerList, <<>>), after |-> {}]
                  ELSE NoLoad]
    /\ batches = [b \in BatchIds |-> NoBatch]
    /\ tasks = <<>>
    /\ lastCommit = 1
    /\ budget = [loads |-> 0, checks |-> 1, singles |-> 0, pip |-> 0, net |-> 0,
                 ticks |-> 0,
                 ops |-> 0, snaps |-> 0, saves |-> 0, gets |-> 0]

NextBreaker ==
    \/ \E b \in BatchIds : check_updates(b)
    \/ \E b \in BatchIds : batch_snapshot(b)
    \/ \E b \in BatchIds : batch_submit(b)
    \/ \E b \in BatchIds : \E i \in 1..Len(batches[b].todo) : batch_collect(b, i)
    \/ \E b \in BatchIds : batch_collect_end(b)
    \/ \E b \in BatchIds : batch_cleanup(b)
    \/ \E b \in BatchIds : batch_finish(b)
    \/ \E t \in DOMAIN tasks : Running = {} /\ task_start(t)
    \/ \E t \in DOMAIN tasks : task_request(t)
    \/ \E t \in DOMAIN tasks : task_response(t, "notfound")
    \/ \E t \in DOMAIN tasks : task_write(t)

SpecBreaker == InitBreaker /\ [][NextBreaker]_vars

\* The engine after the first load, of environment e, has committed.
LoadedAs(e) ==
    LET listed == Listing(InitInstalled[e])
    IN /\ packages = listed
       /\ checking = FALSE
       /\ _load_generation = 1
       /\ _check_cancelled = FALSE
       /\ _shutting_down = FALSE
       /\ last_check_time = [n \in AllNames |-> -1]
       /\ _packages_cache = _save_packages_to_cache(<<>>, e, listed, 0)
       /\ current_environment_id = e
       /\ pip_command = e
       /\ _consecutive_failures = 0
       /\ lockHolder = 0
       /\ installed = InitInstalled
       /\ now = 0
       /\ ops = <<>>
       /\ held = NoHeld
       /\ birth = NoBirth
       /\ got = NoGot
       /\ legacy = NoLegacy
       /\ probe = NoProbe
       /\ ui = [pc |-> "idle", env |-> NoEnv, force |-> FALSE, after |-> {}]
       /\ loads = [g \in LoadIds |->
                     IF g = 1
                     THEN [pc |-> "done", env |-> e, outcome |-> "committed",
                           new_packages |-> ApplyCache(listed, <<>>), after |-> {}]
                     ELSE NoLoad]
       /\ batches = [b \in BatchIds |-> NoBatch]
       /\ tasks = <<>>
       /\ lastCommit = 1

\* An install or an uninstall in the loaded environment, with a check batch
\* and shutdown.
InitOps ==
    /\ \E e \in Envs : LoadedAs(e)
    /\ budget = [loads |-> 0, checks |-> 1, singles |-> 0, pip |-> 0, net |-> 0,
                 ticks |-> 0, ops |-> MaxOps, snaps |-> 0, saves |-> 0, gets |-> 0]

NextOps ==
    \/ \E n \in OpNames, v \in Requested : install_pypi_package(n, v)
    \/ \E n \in OpNames : uninstall_package(n)
    \/ \E o \in DOMAIN ops : \E ok \in BOOLEAN : op_pip(o, ok)
    \/ \E o \in DOMAIN ops : \E answered \in BOOLEAN :
           \E outcome \in {"ok", "notfound"} : op_query(o, answered, outcome)
    \/ \E o \in DOMAIN ops : op_write(o)
    \/ \E o \in DOMAIN ops : op_remove(o)
    \/ \E o \in DOMAIN ops : op_report(o)
    \/ BatchActions
    \/ \E t \in DOMAIN tasks : task_response(t, "ok")
    \/ shutdown

SpecOps == InitOps /\ [][NextOps]_vars

\* ------------------------------------------------------- the cache alone
\* the keys the saves and lookups below use: two stored first, and three new
ProbeKeys == {CacheKeys[1], CacheKeys[2], CacheKeys[StoredEnvs + 1],
              CacheKeys[StoredEnvs + 2], CacheKeys[StoredEnvs + 3]}

\* the list the snapshots are taken of
StoredList == Listing(InitInstalled["e2"])

\* the number of the latest insertion of a key
Births == CHOOSE m \in 0..(Len(CacheKeys) + MaxSaves + 1) :
              /\ \A k \in CacheKeySet : birth[k] <= m
              /\ \E k \in CacheKeySet : birth[k] = m

\* _save_packages_to_cache(key, packages), lines 610-631
cache_save(key) ==
    /\ budget.saves > 0
    /\ budget' = [budget EXCEPT !.saves = @ - 1]
    /\ _packages_cache' = _save_packages_to_cache(_packages_cache, key, StoredList, now)
    /\ birth' = IF CacheIndex(_packages_cache, key) = 0
                THEN [birth EXCEPT ![key] = Births + 1]
                ELSE birth
    /\ UNCHANGED <<packages, checking, _load_generation, _check_cancelled, _shutting_down,
                   last_check_time, current_environment_id, pip_command,
                   _consecutive_failures, lockHolder, installed, now, ops, held, got, ui,
                   loads, batches, tasks, lastCommit, probe, legacy>>

\* _get_cached_packages(key), lines 595-608
cache_get(key) ==
    /\ budget.gets > 0
    /\ budget' = [budget EXCEPT !.gets = @ - 1]
    /\ got' = [key |-> key, at |-> now,
               result |-> _get_cached_packages(_packages_cache, key, now)]
    /\ _packages_cache' = CacheAfterGet(_packages_cache, key, now)
    /\ UNCHANGED <<packages, checking, _load_generation, _check_cancelled, _shutting_down,
                   last_check_time, current_environment_id, pip_command,
                   _consecutive_failures, lockHolder, installed, now, ops, held, birth, ui,
                   loads, batches, tasks, lastCommit, probe, legacy>>

\* half an hour passes
CacheTick ==
    /\ budget.ticks > 0
    /\ now' = now + CacheTickSeconds
    /\ budget' = [budget EXCEPT !.ticks = @ - 1]
    /\ UNCHANGED <<engineVars, lockHolder, installed, ui, loads, batches, tasks, lastCommit,
                   ops, held, birth, got, probe, legacy>>

\* The engine after StoredEnvs environments have been loaded, one after the
\* other, within the first second.
InitCache ==
    /\ packages = StoredList
    /\ checking = FALSE
    /\ _load_generation = StoredEnvs
    /\ _check_cancelled = FALSE
    /\ _shutting_down = FALSE
    /\ last_check_time = [n \in AllNames |-> -1]
    /\ current_environment_id = CacheKeys[StoredEnvs]
    /\ pip_command = "e2"
    /\ _consecutive_failures = 0
    /\ lockHolder = 0
    /\ installed = InitInstalled
    /\ now = 0
    /\ ops = <<>>
    /\ held = NoHeld
    /\ got = NoGot
    /\ legacy = NoLegacy
    /\ probe = NoProbe
    /\ ui = [pc |-> "idle", env |-> NoEnv, force |-> FALSE, after |-> {}]
    /\ loads = [g \in LoadIds |-> NoLoad]
    /\ batches = [b \in BatchIds |-> NoBatch]
    /\ tasks = <<>>
    /\ lastCommit = 0
    /\ _packages_cache =
          [i \in 1..StoredEnvs |->
              [key |-> CacheKeys[i], packages |-> SnapshotOf(StoredList), timestamp |-> 0]]
    /\ birth = [k \in CacheKeySet |->
                   IF \E i \in 1..StoredEnvs : CacheKeys[i] = k
                   THEN CHOOSE i \in 1..StoredEnvs : CacheKeys[i] = k
                   ELSE 0]
    /\ budget = [loads |-> 0, checks |-> 0, singles |-> 0, pip |-> 0, net |-> 0,
                 ticks |-> MaxCacheTicks, ops |-> 0, snaps |-> 0, saves |-> MaxSaves,
                 gets |-> MaxGets]

NextCache ==
    \/ \E k \in ProbeKeys : cache_save(k)
    \/ \E k \in ProbeKeys : cache_get(k)
    \/ CacheTick

SpecCache == InitCache /\ [][NextCache]_vars

\* ------------------------------------------- names with capital letters
\* Environments in which pip lists the second package as "B".
SpelledInstalled ==
    [e \in Envs |-> IF e = "e1" THEN ("a" :> V10 @@ "B" :> Absent)
                    ELSE ("a" :> V20 @@ "B" :> V10)]

\* the list of environment e after every package of it was checked
CheckedList(e) ==
    LET listed == Listing(SpelledInstalled[e])
    IN [i \in 1..Len(listed) |->
           Pkg(listed[i].name, listed[i].ver, RegistryVersion(listed[i].name),
               StatusFor(listed[i].ver, RegistryVersion(listed[i].name)))]

\* The engine after environment e2 was loaded and a check of all its packages
\* has ended (lines 302-303 saved the list); two more loads follow.
InitSpelled ==
    /\ packages = CheckedList("e2")
    /\ checking = FALSE
    /\ _load_generation = 1
    /\ _check_cancelled = FALSE
    /\ _shutting_down = FALSE
    /\ last_check_time = [n \in AllNames |-> IF n \in {"a", "B"} THEN 0 ELSE -1]
    /\ _packages_cache = _save_packages_to_cache(<<>>, "e2", CheckedList("e2"), 0)
    /\ current_environment_id = "e2"
    /\ pip_command = "e2"
    /\ _consecutive_failures = 0
    /\ lockHolder = 0
    /\ installed = SpelledInstalled
    /\ now = 0
    /\ ops = <<>>
    /\ held = NoHeld
    /\ birth = NoBirth
    /\ got = NoGot
    /\ legacy = NoLegacy
    /\ probe = NoProbe
    /\ ui = [pc |-> "idle", env |-> NoEnv, force |-> FALSE, after |-> {}]
    /\ loads = [g \in LoadIds |->
                  IF g = 1
                  THEN [pc |-> "done", env |-> "e2", outcome |-> "committed",
                        new_packages |-> ApplyCache(Listing(SpelledInstalled["e2"]), <<>>),
                        after |-> {}]
                  ELSE NoLoad]
    /\ batches = [b \in BatchIds |-> NoBatch]
    /\ tasks = <<>>
    /\ lastCommit = 1
    /\ budget = [loads |-> MaxLoads, checks |-> 0, singles |-> 0, pip |-> 0, net |-> 0,
                 ticks |-> 0, ops |-> 0, snaps |-> 0, saves |-> 0, gets |-> 0]

NextSpelled == LoadActions

SpecSpelled == InitSpelled /\ [][NextSpelled]_vars

\* ------------------------------------------------- the fetch and its errors
\* One check batch and one check_single thread in environment e1, with
\* network errors, cancellation and shutdown.
InitFetch ==
    /\ LoadedAs("e1")
    /\ budget = [loads |-> 0, checks |-> 1, singles |-> MaxSingles, pip |-> 0,
                 net |-> FetchErrors, ticks |-> 0, ops |-> 0, snaps |-> 0, saves |-> 0,
                 gets |-> 0]

NextFetch ==
    \/ BatchActions
    \/ \E n \in Names : check_single_package(n)
    \/ \E t \in DOMAIN tasks : check_task_lookup(t)
    \/ \E t \in DOMAIN tasks : \E answered \in BOOLEAN : check_task_show(t, answered)
    \/ \E t \in DOMAIN tasks : \E o \in {"ok", "notfound", "error"} : task_response(t, o)
    \/ cancel_check
    \/ shutdown

SpecFetch == InitFetch /\ [][NextFetch]_vars

\* ------------------------------------------------ discovery by check_single
\* A check_single thread, by any spelling of the names, while the caller loads
\* an environment: between the enter and the commit of the load the pip
\* command is the new environment's and the list is still the old one.
CheckedNames == Names \cup {"A"}

InitDiscover ==
    /\ \E e \in Envs : LoadedAs(e)
    /\ budget = [loads |-> 1, checks |-> 0, singles |-> MaxSingles, pip |-> 0, net |-> 0,
                 ticks |-> 0, ops |-> 0, snaps |-> 0, saves |-> 0, gets |-> 0]

NextDiscover ==
    \/ LoadActions
    \/ \E n \in CheckedNames : check_single_package(n)
    \/ \E t \in DOMAIN tasks : check_task_lookup(t)
    \/ \E t \in DOMAIN tasks : \E answered \in BOOLEAN : check_task_show(t, answered)
    \/ \E t \in DOMAIN tasks : check_task_add(t)
    \/ \E t \in DOMAIN tasks : task_start(t)
    \/ \E t \in DOMAIN tasks : task_request(t)
    \/ \E t \in DOMAIN tasks : \E o \in {"ok", "notfound"} : task_response(t, o)
    \/ \E t \in DOMAIN tasks : task_write(t)

SpecDiscover == InitDiscover /\ [][NextDiscover]_vars

\* ------------------------------------------------------ search_pypi_packages
SearchTerms == {"", "a"}
\* what ui_callback received: a list of results
Results(list) == <<"results", list>>

\* A search that does not look at the shutdown flag: C28 must fail with it.
C28_SearchIgnoresShutdown == FALSE

\* the test of line 1010
SearchRefused == _shutting_down

\* search_pypi_packages, lines 1010-1019 and 1044: the empty answer at once when
\* shutting down or for an empty term, else the thread is started
search_pypi_packages(search_term) ==
    /\ probe.call = "none"
    /\ probe' = IF SearchRefused \/ search_term = ""
                THEN [call |-> "search", arg |-> search_term, pc |-> "done",
                      result |-> Results(<<>>)]
                ELSE [call |-> "search", arg |-> search_term, pc |-> "searching",
                      result |-> <<>>]
    /\ UNCHANGED <<engineVars, lockHolder, installed, now, ui, loads, batches, tasks, budget,
                   lastCommit, ops, held, birth, got, legacy>>

\* search_task, lines 1021-1042: the registry answers with hits or with none
\* (an exception counts as none); no callback when shutting down by then
search_task(hits) ==
    /\ probe.call = "search"
    /\ probe.pc = "searching"
    /\ probe' = [probe EXCEPT !.pc = "done",
                              !.result = IF _shutting_down THEN <<>>
                                         ELSE IF hits THEN Results(<<probe.arg>>)
                                         ELSE Results(<<>>)]
    /\ UNCHANGED <<engineVars, lockHolder, installed, now, ui, loads, batches, tasks, budget,
                   lastCommit, ops, held, birth, got, legacy>>

\* --------------------------------------------------- calls after a shutdown
\* One call of each operation in environment e1, before or after shutdown:
\* a check of the list, and package b checked, installed or uninstalled.
InitShutdown ==
    /\ LoadedAs("e1")
    /\ budget = [loads |-> 0, checks |-> 1, singles |-> MaxSingles, pip |-> 0, net |-> 0,
                 ticks |-> 0, ops |-> MaxOps, snaps |-> 0, saves |-> 0, gets |-> 0]

NextShutdown ==
    \/ shutdown
    \/ BatchActions
    \/ \E t \in DOMAIN tasks : task_response(t, "ok")
    \/ check_single_package("b")
    \/ \E t \in DOMAIN tasks : check_task_lookup(t)
    \/ \E t \in DOMAIN tasks : \E answered \in BOOLEAN : check_task_show(t, answered)
    \/ install_pypi_package("b", Absent)
    \/ uninstall_package("b")
    \/ \E o \in DOMAIN ops : \E ok \in BOOLEAN : op_pip(o, ok)
    \/ \E o \in DOMAIN ops : \E answered \in BOOLEAN :
           \E outcome \in {"ok", "notfound"} : op_query(o, answered, outcome)
    \/ \E o \in DOMAIN ops : op_write(o)
    \/ \E o \in DOMAIN ops : op_remove(o)
    \/ \E o \in DOMAIN ops : op_report(o)
    \/ \E term \in SearchTerms : search_pypi_packages(term)
    \/ \E hits \in BOOLEAN : search_task(hits)

SpecShutdown == InitShutdown /\ [][NextShutdown]_vars

\* ------------------------------------- an install or uninstall and a load
\* the list of environment e after every package of it was checked
CheckedListOf(e) ==
    LET listed == Listing(InitInstalled[e])
    IN [i \in 1..Len(listed) |->
           Pkg(listed[i].name, listed[i].ver, RegistryVersion(listed[i].name),
               StatusFor(listed[i].ver, RegistryVersion(listed[i].name)))]

\* Environment e2 was loaded (a 2.0 and b 1.0 installed) and a check of its
\* list has ended, which saved the list (lines 302-303); the caller reloads an
\* environment and installs or uninstalls b.
InitReload ==
    /\ packages = CheckedListOf("e2")
    /\ checking = FALSE
    /\ _load_generation = 1
    /\ _check_cancelled = FALSE
    /\ _shutting_down = FALSE
    /\ last_check_time = [n \in AllNames |-> IF n \in Names THEN 0 ELSE -1]
    /\ _packages_cache = _save_packages_to_cache(<<>>, "e2", CheckedListOf("e2"), 0)
    /\ current_environment_id = "e2"
    /\ pip_command = "e2"
    /\ _consecutive_failures = 0
    /\ lockHolder = 0
    /\ installed = InitInstalled
    /\ now = 0
    /\ ops = <<>>
    /\ held = NoHeld
    /\ birth = NoBirth
    /\ got = NoGot
    /\ legacy = NoLegacy
    /\ probe = NoProbe
    /\ ui = [pc |-> "idle", env |-> NoEnv, force |-> FALSE, after |-> {}]
    /\ loads = [g \in LoadIds |->
                  IF g = 1
                  THEN [pc |-> "done", env |-> "e2", outcome |-> "committed",
                        new_packages |-> ApplyCache(Listing(InitInstalled["e2"]), <<>>),
                        after |-> {}]
                  ELSE NoLoad]
    /\ batches = [b \in BatchIds |-> NoBatch]
    /\ tasks = <<>>
    /\ lastCommit = 1
    /\ budget = [loads |-> 1, checks |-> 0, singles |-> 0, pip |-> 0, net |-> 0,
                 ticks |-> 0, ops |-> MaxOps, snaps |-> 0, saves |-> 0, gets |-> 0]

NextReload ==
    \/ LoadActions
    \/ \E v \in Requested : install_pypi_package("b", v)
    \/ uninstall_package("b")
    \/ \E o \in DOMAIN ops : \E ok \in BOOLEAN : op_pip(o, ok)
    \/ \E o \in DOMAIN ops : \E answered \in BOOLEAN :
           \E outcome \in {"ok", "notfound"} : op_query(o, answered, outcome)
    \/ \E o \in DOMAIN ops : op_write(o)
    \/ \E o \in DOMAIN ops : op_remove(o)
    \/ \E o \in DOMAIN ops : op_report(o)

SpecReload == InitReload /\ [][NextReload]_vars

\* ------------------------------------------- functions of their arguments
\* Every variable but probe and budget, with the engine as __init__ leaves it.
Untouched ==
    /\ packages = <<>>
    /\ checking = FALSE
    /\ _load_generation = 0
    /\ _check_cancelled = FALSE
    /\ _shutting_down = FALSE
    /\ last_check_time = [n \in AllNames |-> -1]
    /\ _packages_cache = <<>>
    /\ current_environment_id = NoEnv
    /\ pip_command = "e1"
    /\ _consecutive_failures = 0
    /\ lockHolder = 0
    /\ installed = InitInstalled
    /\ now = 0
    /\ ops = <<>>
    /\ held = NoHeld
    /\ birth = NoBirth
    /\ got = NoGot
    /\ ui = [pc |-> "idle", env |-> NoEnv, force |-> FALSE, after |-> {}]
    /\ loads = [g \in LoadIds |-> NoLoad]
    /\ batches = [b \in BatchIds |-> NoBatch]
    /\ tasks = <<>>
    /\ lastCommit = 0
    /\ budget = [loads |-> 0, checks |-> 0, singles |-> 0, pip |-> 0, net |-> 0,
                 ticks |-> 0, ops |-> 0, snaps |-> 0, saves |-> 0, gets |-> 0]

\* the call returns r
Returns(r) ==
    /\ probe.pc = "called"
    /\ probe' = [probe EXCEPT !.pc = "done", !.result = r]
    /\ UNCHANGED <<engineVars, lockHolder, installed, now, ui, loads, batches, tasks, budget,
                   lastCommit, ops, held, birth, got, legacy>>

\* ---------------------------------------------------- package name arguments
\* Names a caller may pass, as sequences of characters: a letter, a shell
\* metacharacter, a dot and a hyphen.
NameChars == {"a", ";", ".", "-"}
CallerNames == UNION {[1..k -> NameChars] : k \in 0..NameLen}

\* the characters sanitize_pip_args deletes (src/utils.py:105), of NameChars
ShellMeta == {";"}
\* [a-zA-Z0-9] and [a-zA-Z0-9._-] of the name pattern (src/utils.py:67), of NameChars
AlphaNum == {"a"}
NameInner == {"a", ".", "-"}

\* validate_package_name, src/utils.py:53-74
validate_package_name(name) ==
    /\ name # <<>>
    /\ name[1] \in AlphaNum
    /\ name[Len(name)] \in AlphaNum
    /\ \A i \in 1..Len(name) : name[i] \in NameInner

\* re.sub of src/utils.py:105
StripMeta(arg) == SelectSeq(arg, LAMBDA c : c \notin ShellMeta)

\* sanitize_pip_args on one argument, src/utils.py:96-116: the argument pip
\* gets, or a ValueError
Rejected == [raised |-> "ValueError"]
sanitize_pip_args(arg) ==
    LET stripped == StripMeta(arg)
    IN IF stripped # <<>> /\ stripped[1] # "-" /\ ~validate_package_name(stripped)
       THEN Rejected
       ELSE [passed |-> stripped]

\* What an operation does with the name it is called with: the argument of the
\* subprocess it starts, if it starts one, and what its callback receives.
\* install_task and uninstall_task hand the name to run_pip_with_real_progress,
\* which sanitizes (core.py:1239-1252, 1290-1298; utils.py:223); check_task
\* runs pip show on the name as it is (core.py:349-358).
Outcome(call, name) ==
    IF call = "check_single"
    THEN [spawned |-> TRUE, argument |-> name, callback |-> "later"]
    ELSE IF sanitize_pip_args(name) = Rejected
    THEN [spawned |-> FALSE, argument |-> <<>>, callback |-> "failure"]
    ELSE [spawned |-> TRUE, argument |-> sanitize_pip_args(name).passed,
          callback |-> "later"]

NameCalls == {"install", "uninstall", "check_single"}

\* install_pypi_package, uninstall_package or check_single_package of a name
\* that is not in the list
call_with_name == \E c \in NameCalls : probe.call = c /\ Returns(Outcome(c, probe.arg))

InitNames ==
    /\ Untouched
    /\ legacy = NoLegacy
    /\ \E c \in NameCalls, n \in CallerNames :
           probe = [call |-> c, arg |-> n, pc |-> "called", result |-> <<>>]

NextNames == call_with_name

SpecNames == InitNames /\ [][NextNames]_vars

\* ------------------------------------------- the version rule of src/core.py
\* Version strings a listing or the registry may carry, as character sequences.
VerChars == {"0", "1", "."}
VersionStrings == UNION {[1..k -> VerChars] : k \in 1..VerLen}

\* re.search(r'\d+', part) of src/core.py:330: the first run of digits of the
\* component wherever it starts, as an integer; 0 when there is none
RECURSIVE FirstInt(_)
FirstInt(part) ==
    IF part = <<>> THEN 0
    ELSE IF Head(part) \in Digits THEN LeadingInt(part, 0)
    ELSE FirstInt(Tail(part))

\* parse_version of src/core.py:326-337
legacy_parse_version(ver) ==
    LET parts == SplitDots(ver)
    IN [i \in 1..Len(parts) |-> FirstInt(parts[i])]

\* a < b of two Python tuples of integers: the first difference decides, and
\* a proper prefix is lower
PyTupleLess(a, b) ==
    \/ \E i \in 1..Len(a) :
           /\ i <= Len(b)
           /\ a[i] < b[i]
           /\ \A j \in 1..(i - 1) : a[j] = b[j]
    \/ /\ Len(a) < Len(b)
       /\ \A j \in 1..Len(a) : a[j] = b[j]

\* the status rule of src/core.py:339-348
LegacyStatus(pkg_ver, latest) ==
    IF latest = UnknownV \/ latest = ErrorV THEN "Unknown"
    ELSE IF PyTupleLess(legacy_parse_version(pkg_ver), legacy_parse_version(latest))
    THEN "Outdated"
    ELSE "Updated"

\* _check_single_package_simple of src/core.py decides the status of an
\* installed version against the registry's answer
decide_status ==
    /\ probe.call = "status"
    /\ Returns(LegacyStatus(probe.arg[1], probe.arg[2]))

InitVersions ==
    /\ Untouched
    /\ legacy = NoLegacy
    /\ \E installed_version, latest \in VersionStrings :
           probe = [call |-> "status", arg |-> <<installed_version, latest>>,
                    pc |-> "called", result |-> <<>>]

NextVersions == decide_status

SpecVersions == InitVersions /\ [][NextVersions]_vars

\* ------------------------------------------- environment records and ids
\* src/environments.py. Paths are strings, "" for a missing one; a record may
\* carry an env_id already ("" when it has none).
InterpreterPaths == {"", "/py1", "/py2"}
EnvDirs == {"", "/env1", "/env2"}
CarriedIds == {"", "id0"}
EnvRecords == [python_path : InterpreterPaths, path : EnvDirs, env_id : CarriedIds]
\* the clock readings of the last branch of _generate_env_id
Stamps == {"t1", "t2"}

\* hashlib.md5(s.encode()).hexdigest()[:16]: a digest per input string
Md5(s) == <<"md5", s>>

\* _generate_env_id, src/environments.py:446-453
_generate_env_id(python_path, env_path, stamp) ==
    IF env_path # "" THEN Md5(env_path)
    ELSE IF python_path # "" THEN Md5(python_path)
    ELSE Md5(stamp)

\* _build_combined_list, lines 517-532: the id of a discovered environment
BuiltId(venv_info, stamp) ==
    _generate_env_id(venv_info.python_path, venv_info.path, stamp)

\* set_environment, lines 540-548: the id current_env carries afterwards
SetId(env_info, stamp) ==
    IF env_info.env_id # "" THEN env_info.env_id
    ELSE _generate_env_id(env_info.python_path, env_info.path, stamp)

IdCalls == {"_build_combined_list", "set_environment"}

\* two records pass through the same operation, each at its own time
identify ==
    \E s1, s2 \in Stamps :
        \/ /\ probe.call = "_build_combined_list"
           /\ Returns(<<BuiltId(probe.arg[1], s1), BuiltId(probe.arg[2], s2)>>)
        \/ /\ probe.call = "set_environment"
           /\ Returns(<<SetId(probe.arg[1], s1), SetId(probe.arg[2], s2)>>)

InitIds ==
    /\ Untouched
    /\ legacy = NoLegacy
    /\ \E c \in IdCalls, r1, r2 \in EnvRecords :
           probe = [call |-> c, arg |-> <<r1, r2>>, pc |-> "called", result |-> <<>>]

NextIds == identify

SpecIds == InitIds /\ [][NextIds]_vars

\* ------------------------------------------------ the environment manager
\* src/pyscope/environments.py. The interpreters of the machine, by resolved
\* path, and the python of a virtual environment, a link to the first of them.
Interpreters == {"/py1", "/py2", "/py3"}
VenvPython == "/v1/bin/python"
\* os.path.realpath, Path.resolve
Resolve(path) == IF path = VenvPython THEN "/py1" ELSE path

\* get_python_info, lines 174-195
get_python_info(python_path) ==
    [type |-> "system", python_path |-> python_path, display |-> "Python", pip_path |-> ""]

\* what discover_python_installations may return: interpreters of distinct
\* resolved paths, in any order (lines 18-47)
RECURSIVE Orderings(_)
Orderings(S) ==
    IF S = {} THEN {<<>>}
    ELSE UNION {{<<get_python_info(x)>> \o rest : rest \in Orderings(S \ {x})} : x \in S}
DiscoveredPythons == UNION {Orderings(S) : S \in SUBSET Interpreters}

\* what _discover_virtual_environments may return (lines 286-330)
VenvRecord == [type |-> "venv", python_path |-> VenvPython, display |-> "v1",
               pip_path |-> ""]
DiscoveredVenvs == {<<>>, <<VenvRecord>>}

\* the environment of _init_default_environment, lines 243-249
DefaultEnv(python_path) ==
    [type |-> "system", python_path |-> python_path, display |-> "System Python",
     pip_path |-> ""]

\* an entry refresh makes of a discovered interpreter, lines 264-271
PythonEntry(py) ==
    [type |-> "python", python_path |-> py.python_path, display |-> py.display,
     pip_path |-> ""]

\* current_env: the default one, or an entry of an earlier list that
\* set_environment was called with (lines 544-548)
CurrentEnvs ==
    {DefaultEnv("/py1"), VenvRecord} \cup {PythonEntry(get_python_info(x)) : x \in Interpreters}

\* refresh, lines 253-284: the new all_environments
Refreshed(pythons, venvs, current_env) ==
    LET listed == [i \in 1..Len(pythons) |-> PythonEntry(pythons[i])] \o venvs
    IN IF \E i \in 1..Len(listed) : listed[i] = current_env
       THEN listed
       ELSE <<current_env>> \o listed

refresh ==
    /\ probe.call = "refresh"
    /\ Returns(Refreshed(probe.arg[1], probe.arg[2], probe.arg[3]))

\* The files of the environments and which of them exist.
PipPaths == {"", "/v1/bin/pip", "/v2/bin/pip"}
PythonPaths == {"", "/v1/bin/python", "/v2/bin/python"}
SystemPython == "/py1"
NoCurrentEnv == [type |-> "none"]
\* current_env: none, or a record as _scan_pyenv_root makes them (lines 634-642),
\* with the pip executable it found, if any
PipEnvs == {NoCurrentEnv} \cup
           {[type |-> "pyenv", python_path |-> y, display |-> "v", pip_path |-> x] :
               y \in PythonPaths, x \in PipPaths}

\* get_pip_command, lines 550-568; existing is os.path.exists
PipCommand(current_env, existing) ==
    IF current_env = NoCurrentEnv THEN <<SystemPython, "-m", "pip">>
    ELSE IF current_env.python_path # "" /\ current_env.python_path \in existing
    THEN <<current_env.python_path, "-m", "pip">>
    ELSE <<SystemPython, "-m", "pip">>

get_pip_command ==
    /\ probe.call = "get_pip_command"
    /\ Returns(PipCommand(probe.arg[1], probe.arg[2]))

InitEnvs ==
    /\ Untouched
    /\ legacy = NoLegacy
    /\ \/ \E pythons \in DiscoveredPythons, venvs \in DiscoveredVenvs, c \in CurrentEnvs :
              probe = [call |-> "refresh", arg |-> <<pythons, venvs, c>>,
                       pc |-> "called", result |-> <<>>]
       \/ \E c \in PipEnvs, existing \in SUBSET ((PipPaths \cup PythonPaths) \ {""}) :
              probe = [call |-> "get_pip_command", arg |-> <<c, existing>>,
                       pc |-> "called", result |-> <<>>]

NextEnvs ==
    \/ refresh
    \/ get_pip_command

SpecEnvs == InitEnvs /\ [][NextEnvs]_vars

\* ------------------------------------------------------------------ claims
\* the names and installed versions of a list
Identity(pkgs) == [i \in 1..Len(pkgs) |-> <<pkgs[i].name, pkgs[i].ver>>]

\* load_task g is at the step that assigns self.packages
Assigns(g) ==
    /\ loads[g].pc = "commit"
    /\ loads'[g].pc = "done"
    /\ loads'[g].outcome = "committed"

\* C1: a load cycle whose generation has been superseded by a later load call
\* never assigns its result to the package list, so every assignment is made
\* by the cycle of the current generation.
C1_StaleCycleNeverAssigns ==
    [][\A g \in LoadIds : Assigns(g) => _load_generation = g]_vars

\* every load cycle submitted so far has run to its end
LoadsOver == \A g \in 1.._load_generation : loads[g].pc = "done"

\* C3: when two or more load cycles were submitted one after the other and all
\* have run to their end, the package list holds the result of the cycle
\* submitted last.
C3_LaterCycleWins ==
    (/\ _load_generation >= 2
     /\ LoadsOver
     /\ ~_shutting_down)
    => /\ lastCommit = _load_generation
       /\ loads[_load_generation].outcome = "committed"
       /\ Identity(packages) = Identity(loads[_load_generation].new_packages)

\* Two cycles both assigned, the earlier one first, and their results differ.
C3_Witness ==
    /\ _load_generation = 2
    /\ LoadsOver
    /\ loads[1].outcome = "committed"
    /\ loads[2].outcome = "committed"
    /\ ~_shutting_down
    /\ lastCommit = 2
    /\ Identity(loads[1].new_packages) # Identity(loads[2].new_packages)
    /\ Identity(packages) = Identity(loads[2].new_packages)

\* C5: every package of the list satisfies the status rule with respect to
\* its own recorded installed and latest versions.
C5_StatusRule ==
    \A i \in 1..Len(packages) :
        packages[i].stat = StatusFor(packages[i].ver, packages[i].lat)

\* C6: a load that commits has copied no cached status from a snapshot entry
\* whose recorded installed version differs from the newly listed one: such a
\* package is left Unknown by the cache step.
C6_MismatchInvalidates ==
    \A g \in LoadIds :
        loads[g].outcome = "committed" =>
            \A i \in 1..Len(loads[g].new_packages) :
                LET p == loads[g].new_packages[i]
                IN (p.from # Absent /\ p.from # p.ver) =>
                       /\ p.lat = UnknownV
                       /\ p.stat = "Unknown"

\* the run t writes its result into the list
Writes(t) == tasks[t].pc = "write" /\ tasks'[t].pc = "done"

\* Batch b was cancelled while it ran, a load was called after that, still
\* during the batch, for an environment other than the one whose list the
\* batch snapshotted, and that load has committed.
Switched(b) ==
    /\ lastCommit # 0
    /\ b \in loads[lastCommit].after
    /\ batches[b].commit # 0
    /\ loads[lastCommit].env # loads[batches[b].commit].env

\* C2: after the environment was switched (cancel_check, then a load of another
\* environment that committed) during a check, no worker of that check changes
\* the package list committed for the new environment.
C2_NoWriteAfterSwitch ==
    [][\A t \in DOMAIN tasks :
          (t[1] # 0 /\ Writes(t) /\ Switched(t[1])) => packages' = packages]_vars

\* C4: at most one batch thread is active at a time.
C4_OneBatchThread ==
    Cardinality({b \in BatchIds : ActiveBatch(b)}) <= 1

\* the batch thread of call b is over, or the call was refused
Ended(b) == batches[b].pc \in {"done", "crashed"}

C10_NoNotifyAfterFinish ==
    [][\A b \in BatchIds :
          batches'[b].notified > batches[b].notified => batches[b].finished = 0]_vars

\* the package was checked by a non-forced check less than the limit ago
RecentlyChecked(n) ==
    /\ last_check_time[n] # -1
    /\ now - last_check_time[n] < rate_limit_seconds

\* the run t passes the cancellation check and reaches the rate limit
Gated(t) == tasks[t].pc = "pending" /\ tasks'[t].pc # "pending" /\ ~Cancelled

C8_BreakerStopsFetches ==
    [][\A t \in DOMAIN tasks :
          (t[1] # 0 /\ tasks[t].pc = "fetch" /\ tasks'[t].pc = "inflight") =>
              batches[t[1]].failrun < _consecutive_failures_threshold]_vars

\* the step is one of the thread of operation o
OpStep(o) == ops'[o] # ops[o]

PipSucceeds(o) == ops[o].pc = "pip" /\ ops'[o].pipres = "ok"

\* C17: when an install or an uninstall of a package has succeeded, no time of
\* a last check is recorded any more for that package, however the caller
\* spelled its name.
C17_SuccessClearsRateLimit ==
    [][\A o \in DOMAIN ops :
          PipSucceeds(o) =>
              \A n \in AllNames :
                  Lower(n) = Lower(ops[o].name) => last_check_time'[n] = -1]_vars

\* the step in which _update_after_install returns to install_task
UpdateReturns(o) == ops[o].pc \in {"query", "write"} /\ ops'[o].pc = "report"

\* C18: when _update_after_install returns after a successful install, the
\* list has the package with the version that is installed in the environment
\* pip installed it into.
C18_ListHasInstalledVersion ==
    [][\A o \in DOMAIN ops :
          UpdateReturns(o) =>
              \E i \in 1..Len(packages') :
                  /\ Lower(packages'[i].name) = Lower(ops[o].name)
                  /\ packages'[i].ver = ops'[o].truth]_vars

\* the positions of pkgs whose name is not that of n, letter case aside
Others(pkgs, n) == {i \in 1..Len(pkgs) : Lower(pkgs[i].name) # Lower(n)}

\* C19: the thread of a successful uninstall of a name changes the list in one
\* step only, which drops the packages of that name, letter case aside, and
\* keeps every other record as it was, in the same order.
C19_UninstallRemovesExactly ==
    [][\A o \in DOMAIN ops :
          (OpStep(o) /\ ops[o].kind = "uninstall") =>
              IF ops[o].pc = "remove"
              THEN LET kept == Others(packages, ops[o].name)
                   IN /\ Len(packages') = Cardinality(kept)
                      /\ \A i \in kept :
                             packages'[Cardinality({j \in kept : j <= i})] = packages[i]
              ELSE packages' = packages]_vars

\* The uninstall of "A" is over: the package listed as "a" is gone and the
\* record of "b" is the one that was loaded.
C19_Witness ==
    \E o \in DOMAIN ops :
        /\ ops[o].kind = "uninstall" /\ ops[o].name = "A"
        /\ ops[o].pc = "done" /\ ops[o].callback = <<TRUE, "uninstall">>
        /\ Len(packages) = 1
        /\ packages[1] = Listing(InitInstalled["e2"])[2]
        /\ packages[1].name = "b"

\* the keys a cache holds
CachedKeys(cache) == {cache[i].key : i \in 1..Len(cache)}

\* the step is a call of _save_packages_to_cache, or of _get_cached_packages
SaveStep == budget'.saves < budget.saves
GetStep == budget'.gets < budget.gets

C13_CacheExpiry ==
    [][GetStep =>
          LET key == got'.key
              k == CacheIndex(_packages_cache, key)
          IN k # 0 =>
                IF now - _packages_cache[k].timestamp <= _cache_expiry
                THEN /\ got'.result = _packages_cache[k].packages
                     /\ got'.result # <<>>
                     /\ _packages_cache' = _packages_cache
                ELSE /\ got'.result = <<>>
                     /\ CachedKeys(_packages_cache') = CachedKeys(_packages_cache) \ {key}
                     /\ \A i \in 1..Len(_packages_cache') :
                            \E j \in 1..Len(_packages_cache) :
                                _packages_cache'[i] = _packages_cache[j]]_vars

\* A lookup of the first key, made an hour and a half after the key was
\* stored, returned nothing and the entry is gone; no other entry is.
C13_Witness ==
    /\ got.key = CacheKeys[1] /\ got.result = <<>>
    /\ got.at > _cache_expiry
    /\ CacheKeys[1] \notin CachedKeys(_packages_cache)
    /\ Len(_packages_cache) = StoredEnvs - 1

\* the step in which the batch thread of call b calls on_finish
FinishStep(b) == batches[b].pc = "finish" /\ batches'[b].finished > batches[b].finished

\* The batch of call b ran to its end undisturbed: no cancel_check and no
\* shutdown, no load called since check_updates, every package of its snapshot
\* submitted and collected, and a version from the registry for each.
RanToCompletion(b) ==
    /\ ~batches[b].cancelled /\ ~Cancelled
    /\ batches[b].gen = _load_generation /\ ui.pc = "idle"
    /\ batches[b].todo # <<>>
    /\ batches[b].yielded = 1..Len(batches[b].todo)
    /\ \A i \in 1..Len(batches[b].todo) :
           /\ tasks[<<b, i>>].pc = "done"
           /\ tasks[<<b, i>>].latest = RegistryVersion(tasks[<<b, i>>].name)

\* C14: when a batch that ran to completion calls on_finish, every package of
\* the list has the registry's version as latest, and status Outdated if its
\* installed version is lower than that version and Updated otherwise.
C14_CheckedListIsCurrent ==
    [][\A b \in BatchIds :
          (FinishStep(b) /\ RanToCompletion(b)) =>
              \A i \in 1..Len(packages) :
                  /\ packages[i].lat = RegistryVersion(packages[i].name)
                  /\ packages[i].stat = IF is_outdated(packages[i].ver, packages[i].lat)
                                        THEN "Outdated" ELSE "Updated"]_vars

\* C15: a load that commits while the cache has no snapshot of its
\* environment (none was applied to its listing, none is there at the commit)
\* and the list in memory is empty, assigns a list in which every package has
\* latest Unknown and status Unknown.
C15_FirstLoadAllUnknown ==
    [][\A g \in LoadIds :
          (/\ Assigns(g)
           /\ packages = <<>>
           /\ CacheIndex(_packages_cache, loads[g].env) = 0
           /\ \A i \in 1..Len(loads[g].new_packages) :
                  loads[g].new_packages[i].from = Absent) =>
              \A i \in 1..Len(packages') :
                  /\ packages'[i].lat = UnknownV
                  /\ packages'[i].stat = "Unknown"]_vars

\* The first load, of environment e2, has committed its two packages into an
\* engine that had neither a list nor a cache, and nothing is known about them.
C15_Witness ==
    /\ lastCommit = 1 /\ loads[1].env = "e2" /\ loads[1].outcome = "committed"
    /\ \A b \in BatchIds : batches[b].pc = "none"
    /\ Len(packages) = 2
    /\ \A i \in 1..Len(packages) : packages[i].lat = UnknownV /\ packages[i].stat = "Unknown"
    /\ CachedKeys(_packages_cache) = {"e2"}

\* C16: a load that commits, no later load having been called, gives every
\* listed package whose installed version is the one the cached snapshot of
\* the environment records for its name, letter case aside, the latest
\* version and the status of that snapshot entry.
C16_CacheRestoresMatching ==
    [][\A g \in LoadIds :
          (Assigns(g) /\ _load_generation = g /\ ui.pc = "idle") =>
              LET snapshot == _get_cached_packages(_packages_cache, loads[g].env, now)
              IN \A i \in 1..Len(packages') : \A n \in DOMAIN snapshot :
                     (/\ Lower(n) = Lower(packages'[i].name)
                      /\ snapshot[n].ver = packages'[i].ver) =>
                         /\ packages'[i].lat = snapshot[n].lat
                         /\ packages'[i].stat = snapshot[n].stat]_vars

\* C20: the list a caller got from refresh_packages_data or filter_packages
\* reads as it did when it was handed out, whatever the engine has done since.
C20_HandedListIsFrozen ==
    held.has => HeldView = held.taken

\* the check_single thread t leaves the cancellation check of lines 483-484
SingleStarts(t) == t[1] = 0 /\ tasks[t].pc = "pending" /\ tasks'[t].pc # "pending"

\* C21: whenever the engine is not shutting down, the check of a check_single
\* thread, whose package is in the list, goes on to the registry fetch.
C21_RetryAlwaysFetches ==
    [][\A t \in DOMAIN tasks :
          (SingleStarts(t) /\ ~_shutting_down) => tasks'[t].pc = "fetch"]_vars

\* the request of run t is answered
Answered(t) == tasks[t].pc = "inflight" /\ tasks'[t].pc # "inflight"

\* C22: a fetch makes at most 3 requests; a 404 ends it at once with Unknown;
\* a request is repeated only after another error and only before the third
\* attempt; and the fetch ends with the registry's version or with Unknown.
C22_FetchIsBounded ==
    [][\A t \in DOMAIN tasks :
          /\ tasks[t].attempt + 1 <= 3
          /\ Answered(t) =>
                /\ tasks'[t].pc \in {"fetch", "write"}
                /\ tasks'[t].answer = "notfound" =>
                       /\ tasks'[t].pc = "write"
                       /\ tasks'[t].latest = UnknownV
                       /\ tasks'[t].attempt = tasks[t].attempt
                /\ tasks'[t].pc = "fetch" =>
                       /\ tasks'[t].answer = "error"
                       /\ tasks'[t].attempt = tasks[t].attempt + 1
                       /\ tasks'[t].attempt + 1 <= 3
                /\ tasks'[t].pc = "write" =>
                       tasks'[t].latest \in {RegistryVersion(tasks[t].name), UnknownV}]_vars

\* One fetch has ended with Unknown after three failed requests, and another
\* at its first request, which was answered 404.
C22_Witness ==
    \E t, u \in DOMAIN tasks :
        /\ tasks[t].pc = "write" /\ tasks[t].attempt = 2 /\ tasks[t].answer = "error"
        /\ tasks[t].latest = UnknownV
        /\ tasks[u].pc = "write" /\ tasks[u].attempt = 0 /\ tasks[u].answer = "notfound"
        /\ tasks[u].latest = UnknownV

\* the name is malformed, or carries a shell metacharacter
Malformed(name) == ~validate_package_name(name) \/ \E i \in 1..Len(name) : name[i] \in ShellMeta

\* C23: install, uninstall and check_single called with a malformed name, or
\* one that carries a shell metacharacter, start no subprocess and report
\* failure through the callback.
C23_BadNameRejected ==
    (probe.call \in NameCalls /\ probe.pc = "done" /\ Malformed(probe.arg)) =>
        /\ ~probe.result.spawned
        /\ probe.result.callback = "failure"

\* the check_single threads
Singles == {t \in DOMAIN tasks : t[1] = 0}

\* thread t ends its pip show in this step
ShowStep(t) == tasks[t].pc = "show" /\ tasks'[t].pc # "show"

\* thread t ends in this step the locked section that adds the package
AddStep(t) == tasks[t].pc = "add" /\ tasks'[t].pc # "add"

C25_NamesUniqueByCase ==
    \A i, j \in 1..Len(packages) :
        Lower(packages[i].name) = Lower(packages[j].name) => i = j

\* the tuple of a version zero-padded to n components
PaddedTuple(ver, n) == Padded(legacy_parse_version(ver), n)

\* C26: a package is Outdated exactly when the tuple of its installed version,
\* zero-padded to the length of the longer one, is lower than the padded tuple
\* of the latest version (so that 1.0 against 1.0.0 is not Outdated).
C26_OutdatedIffPaddedLower ==
    (probe.call = "status" /\ probe.pc = "done") =>
        LET a == legacy_parse_version(probe.arg[1])
            b == legacy_parse_version(probe.arg[2])
            n == IF Len(a) > Len(b) THEN Len(a) ELSE Len(b)
        IN (probe.result = "Outdated") <=> TupleLess(Padded(a, n), Padded(b, n))

\* C27: two environment records with the same interpreter path get the same
\* id, when they are built and when they are set, whether or not they carry an
\* environment directory.
C27_IdByInterpreterPath ==
    (probe.call \in IdCalls /\ probe.pc = "done"
        /\ probe.arg[1].python_path # ""
        /\ probe.arg[1].python_path = probe.arg[2].python_path) =>
            probe.result[1] = probe.result[2]

\* C28: once shutdown has been called, a check_updates, check_single, install,
\* uninstall or registry search that is invoked starts no thread: check_updates
\* reports on_finish, check_single, install and uninstall report failure, the
\* search reports an empty result, and the call returns.
C28_NothingStartsAfterShutdown ==
    [][_shutting_down =>
          /\ \A b \in BatchIds :
                (batches[b].pc = "none" /\ batches'[b].pc # "none") =>
                    /\ batches'[b].pc = "done"
                    /\ batches'[b].started = 0
                    /\ batches'[b].finished = 1
          /\ \A t \in DOMAIN tasks' \ DOMAIN tasks :
                tasks'[t].pc = "refused" /\ ~tasks'[t].result
          /\ \A o \in DOMAIN ops' \ DOMAIN ops :
                ops'[o].pc = "done" /\ ops'[o].callback = <<FALSE, "Shutting down">>
          /\ (probe.call = "none" /\ probe'.call = "search") =>
                (probe'.pc = "done" /\ probe'.result = Results(<<>>))
          /\ \A t \in DOMAIN tasks : tasks[t].pc = "refused" => tasks'[t] = tasks[t]]_vars

\* after shutdown every operation was invoked with a non-empty argument and
\* each reported at once
C28_Witness ==
    /\ _shutting_down
    /\ \E b \in BatchIds : batches[b].pc = "done" /\ batches[b].started = 0
                           /\ batches[b].finished = 1
    /\ \E t \in DOMAIN tasks : tasks[t].pc = "refused"
    /\ \E o \in DOMAIN ops : ops[o].callback = <<FALSE, "Shutting down">>
    /\ probe.call = "search" /\ probe.arg = "a" /\ probe.result = Results(<<>>)

\* C29: no two entries of the list a refresh produces refer to the same
\* interpreter by resolved path, the current environment's entry included.
C29_OneEntryPerInterpreter ==
    (probe.call = "refresh" /\ probe.pc = "done") =>
        \A i, j \in 1..Len(probe.result) :
            Resolve(probe.result[i].python_path) = Resolve(probe.result[j].python_path)
                => i = j

\* C30: the pip command of the current environment is its pip executable when
\* that exists, else its interpreter with -m pip when that exists, else the
\* system interpreter with -m pip.
C30_PipCommandPreference ==
    (probe.call = "get_pip_command" /\ probe.pc = "done") =>
        LET current_env == probe.arg[1]
            existing == probe.arg[2]
        IN probe.result =
              IF current_env # NoCurrentEnv /\ current_env.pip_path \in existing
              THEN <<current_env.pip_path>>
              ELSE IF current_env # NoCurrentEnv /\ current_env.python_path \in existing
              THEN <<current_env.python_path, "-m", "pip">>
              ELSE <<SystemPython, "-m", "pip">>

\* a record of name n with installed version v can come from a listing of
\* environment e: n is installed there with that version, now or at the start
ListedIn(e, n, v) ==
    /\ n \in DOMAIN installed[e]
    /\ v # Absent
    /\ v \in {installed[e][n], InitInstalled[e][n]}

\* C31: every snapshot stored in the cache under an environment id consists
\* only of package records of a list loaded for that environment, also while a
\* load of another environment is submitted and not yet committed.
C31_SnapshotOfItsEnvironment ==
    \A k \in 1..Len(_packages_cache) :
        \A n \in DOMAIN _packages_cache[k].packages :
            ListedIn(_packages_cache[k].key, n, _packages_cache[k].packages[n].ver)

\* worker t ends in this step a run whose fetch gave up on a cancellation: it
\* made no request that was answered
CancelledWrite(t) ==
    /\ tasks[t].pc = "write"
    /\ tasks[t].answer = "none"
    /\ tasks'[t].pc = "done"

\* C32: a worker that observes the cancellation of a check leaves the latest
\* version and the status of its package as they were.
C32_CancelKeepsKnown ==
    [][\A t \in DOMAIN tasks :
          CancelledWrite(t) =>
              \A i \in 1..Len(packages) :
                  (packages[i].name = tasks[t].name /\ packages[i].lat # UnknownV) =>
                      /\ packages'[i].lat = packages[i].lat
                      /\ packages'[i].stat = packages[i].stat]_vars

\* uninstall o succeeded and has removed its package from the list
Uninstalled(o) ==
    /\ ops[o].kind = "uninstall"
    /\ ops[o].pipres = "ok"
    /\ ops[o].pc \in {"report", "done"}

\* every load made so far, and the one being entered, is of environment e
OnlyLoadsOf(e) ==
    /\ pip_command = e
    /\ \A g \in LoadIds : loads[g].pc # "none" => loads[g].env = e

\* C33: a package that a successful uninstall removed from the list does not
\* come back through the commit of a load of that environment (whose listing
\* was taken before the uninstall ended).
C33_UninstalledStaysOut ==
    \A o \in DOMAIN ops :
        (Uninstalled(o) /\ OnlyLoadsOf(ops[o].env)) =>
            IndexOfLower(packages, ops[o].name) = 0

\* load g commits in this step, as a load of the current environment
CommitStep(g) ==
    /\ loads[g].pc = "commit"
    /\ loads'[g].outcome = "committed"
    /\ loads[g].env = current_environment_id

\* C34: when a load of the current environment commits and the list in memory
\* holds a package with the same installed version and a known latest version,
\* the committed latest and status of that package are those in memory, whatever
\* the cached snapshot holds for it.
C34_MemoryBeforeCache ==
    [][\A g \in LoadIds :
          CommitStep(g) =>
              \A i \in 1..Len(packages'), j \in 1..Len(packages) :
                  (/\ Lower(packages'[i].name) = Lower(packages[j].name)
                   /\ packages'[i].ver = packages[j].ver
                   /\ packages[j].lat # UnknownV) =>
                      /\ packages'[i].lat = packages[j].lat
                      /\ packages'[i].stat = packages[j].stat]_vars

\* ------------------------------------------- a load while a fetch sleeps
\* check_single_package("a") was called in environment e1 and the first request
\* of its fetch has failed: the fetch is in time.sleep(1) between two attempts
\* (line 476). The caller loads an environment.
Sleeper == <<0, 1>>

InitPulse ==
    /\ packages = Listing(InitInstalled["e1"])
    /\ checking = FALSE
    /\ _load_generation = 1
    /\ _check_cancelled = FALSE
    /\ _shutting_down = FALSE
    /\ last_check_time = [n \in AllNames |-> -1]
    /\ _packages_cache = _save_packages_to_cache(<<>>, "e1", Listing(InitInstalled["e1"]), 0)
    /\ current_environment_id = "e1"
    /\ pip_command = "e1"
    /\ _consecutive_failures = 0
    /\ lockHolder = 0
    /\ installed = InitInstalled
    /\ now = 0
    /\ ops = <<>>
    /\ held = NoHeld
    /\ birth = NoBirth
    /\ got = NoGot
    /\ legacy = NoLegacy
    /\ probe = NoProbe
    /\ ui = [pc |-> "idle", env |-> NoEnv, force |-> FALSE, after |-> {}]
    /\ loads = [g \in LoadIds |->
                  IF g = 1
                  THEN [pc |-> "done", env |-> "e1", outcome |-> "committed",
                        new_packages |-> ApplyCache(Listing(InitInstalled["e1"]), <<>>),
                        after |-> {}]
                  ELSE NoLoad]
    /\ batches = [b \in BatchIds |-> NoBatch]
    /\ tasks = (Sleeper :> [NewTask("a", InitInstalled["e1"]["a"], TRUE, "fetch")
                               EXCEPT !.attempt = 1, !.answer = "error"])
    /\ lastCommit = 1
    /\ budget = [loads |-> 1, checks |-> 0, singles |-> 0, pip |-> 0,
                 net |-> MaxNetErrors, ticks |-> 0, ops |-> 0, snaps |-> 0, saves |-> 0,
                 gets |-> 0]

NextPulse ==
    \/ LoadActions
    \/ \E t \in DOMAIN tasks : task_request(t)
    \/ \E t \in DOMAIN tasks : \E o \in {"ok", "notfound", "error"} : task_response(t, o)
    \/ \E t \in DOMAIN tasks : task_write(t)

SpecPulse == InitPulse /\ [][NextPulse]_vars

\* the state InitPulse starts from, as the check thread reaches it
SleepsBetweenAttempts ==
    /\ Sleeper \in DOMAIN tasks
    /\ tasks[Sleeper].pc = "fetch"
    /\ tasks[Sleeper].attempt = 1
    /\ tasks[Sleeper].name = "a"
    /\ ~Cancelled

\* the sleeping fetch starts its next request
NextAttempt(t) == tasks[t].pc = "fetch" /\ tasks'[t].pc = "inflight"

\* a load has been called since the fetch went to sleep
LoadCalled == ui.pc = "load" \/ _load_generation > 1

\* C35: a fetch that sleeps between two attempts when a load requests the
\* cancellation starts no further request: once the load has been called, the
\* fetch leaves its sleep only to return Unknown.
C35_NoAttemptAfterCancel ==
    [][\A t \in DOMAIN tasks :
          LoadCalled =>
             /\ ~NextAttempt(t)
             /\ (tasks[t].pc = "fetch" /\ tasks'[t].pc # "fetch")
                    => tasks'[t].latest = UnknownV]_vars

\* ------------------------------ the lock and the requests and subprocesses
\* Environment e1 is loaded; one load, one check_updates, one check_single and
\* one install or uninstall run side by side.
InitCalls ==
    /\ LoadedAs("e1")
    /\ budget = [loads |-> 1, checks |-> 1, singles |-> MaxSingles, pip |-> 0, net |-> 0,
                 ticks |-> 0, ops |-> MaxOps, snaps |-> 0, saves |-> 0, gets |-> 0]

NextCalls ==
    \/ load_packages_with_cache_enter("e1", FALSE)
    \/ load_packages_with_cache_submit
    \/ \E g \in LoadIds : load_task_list(g)
    \/ \E g \in LoadIds : load_task_merge(g)
    \/ \E g \in LoadIds : load_task_final_check(g)
    \/ \E g \in LoadIds : load_task_commit(g)
    \/ BatchActions
    \/ check_single_package("b")
    \/ \E t \in DOMAIN tasks : check_task_lookup(t)
    \/ \E t \in DOMAIN tasks : check_task_show(t, FALSE)
    \/ \E t \in DOMAIN tasks : task_response(t, "ok")
    \/ install_pypi_package("b", Absent)
    \/ uninstall_package("a")
    \/ \E o \in DOMAIN ops : op_pip(o, TRUE)
    \/ \E o \in DOMAIN ops : op_query(o, TRUE, "ok")
    \/ \E o \in DOMAIN ops : op_write(o)
    \/ \E o \in DOMAIN ops : op_remove(o)
    \/ \E o \in DOMAIN ops : op_report(o)

SpecCalls == InitCalls /\ [][NextCalls]_vars

\* the threads that are inside a registry request or a package-manager
\* subprocess: pip list of a load task, pip show of check_task, urlopen of a
\* fetch, pip install or uninstall and the pip show and fetch that follow it
InCall ==
    {<<"load", g>> : g \in {h \in LoadIds : loads[h].pc = "start"}}
    \cup {<<"check", t>> : t \in {u \in DOMAIN tasks : tasks[u].pc \in {"show", "inflight"}}}
    \cup {<<"op", o>> : o \in {q \in DOMAIN ops : ops[q].pc \in {"pip", "query"}}}

\* the thread that is inside a "with self.lock" block that spans steps
Holder == IF lockHolder = 0 THEN {} ELSE {<<"load", lockHolder>>}

\* C36: no thread holds self.lock while it performs a registry request or
\* runs a package-manager subprocess: the thread that holds the lock is never
\* one of those inside such a call, and a load task holds it only in its
\* commit section.
C36_NoCallUnderLock ==
    /\ Holder \cap InCall = {}
    /\ \A g \in LoadIds : lockHolder = g => loads[g].pc = "commit"

\* the lock is held while other threads are inside a request and a subprocess
C36_Witness ==
    /\ lockHolder # 0
    /\ \E t \in DOMAIN tasks : tasks[t].pc = "inflight"
    /\ \E o \in DOMAIN ops : ops[o].pc = "pip"

\* C38: no worker thread ends with an unhandled exception: the batch thread
\* never ends by an exception raised in its own cleanup, the empty package
\* list included.
C38_NoWorkerCrashes == \A b \in BatchIds : batches[b].pc # "crashed"

\* ------------------------------- the locks of the older engine (src/core.py)
\* A check batch of src/core.py: its executor's two workers run
\* _check_single_package_simple for the submitted packages, with a
\* ui_package_callback that reads the engine's state (get_package_by_name,
\* lines 911-916, which takes self.lock).
LegacyPkgs == 3

othersUnchanged ==
    UNCHANGED <<engineVars, lockHolder, installed, now, ui, loads, batches, tasks, budget,
                lastCommit, ops, held, birth, got, probe>>

\* a worker takes the next submitted run (lines 139-142, 299-300)
legacy_take(w) ==
    /\ legacy.pc[w] = "idle"
    /\ legacy.left > 0
    /\ legacy' = [legacy EXCEPT !.pc[w] = "start", !.left = @ - 1]
    /\ othersUnchanged

\* lines 305-317: with self.lock, the rate limit. A package checked less than
\* 30 seconds ago goes on to the batch with self.lock held (line 309); any
\* other gets its timestamp and the lock is released.
legacy_rate_limit(w, limited) ==
    /\ legacy.pc[w] = "start"
    /\ legacy.lock = 0
    /\ legacy' = IF limited
                 THEN [legacy EXCEPT !.pc[w] = "limited", !.lock = w]
                 ELSE [legacy EXCEPT !.pc[w] = "fetch"]
    /\ othersUnchanged

\* lines 309-315, self.lock held: with self._batch_lock, append, flush when the
\* interval has passed (the callback then re-enters self.lock, an RLock, in
\* the same thread), release both, return True
legacy_limited_batch(w) ==
    /\ legacy.pc[w] = "limited"
    /\ legacy.lock = w
    /\ legacy.batch_lock = 0
    /\ legacy' = [legacy EXCEPT !.pc[w] = "idle", !.lock = 0]
    /\ othersUnchanged

\* lines 319-348: the fetch and the status; failed is an exception (line 368)
legacy_fetch(w, failed) ==
    /\ legacy.pc[w] = "fetch"
    /\ legacy' = [legacy EXCEPT !.pc[w] = IF failed THEN "ewrite" ELSE "write"]
    /\ othersUnchanged

\* lines 351-356 and 371-376: with self.lock, the write into the list
legacy_write(w) ==
    /\ legacy.pc[w] \in {"write", "ewrite"}
    /\ legacy.lock = 0
    /\ legacy' = [legacy EXCEPT !.pc[w] = "notify"]
    /\ othersUnchanged

\* lines 359-366 and 379-385: with self._batch_lock, append; when the flush is
\* due, _flush_batch_updates (lines 192-204) calls ui_package_callback for each
\* name with the batch lock held
legacy_notify(w, due) ==
    /\ legacy.pc[w] = "notify"
    /\ legacy.batch_lock = 0
    /\ legacy' = IF due
                 THEN [legacy EXCEPT !.pc[w] = "callback", !.batch_lock = w]
                 ELSE [legacy EXCEPT !.pc[w] = "idle"]
    /\ othersUnchanged

\* the callback reads the engine's state under self.lock (lines 911-916) and
\* returns; the flush ends and the batch lock is released
legacy_callback(w) ==
    /\ legacy.pc[w] = "callback"
    /\ legacy.lock = 0
    /\ legacy' = [legacy EXCEPT !.pc[w] = "idle", !.batch_lock = 0]
    /\ othersUnchanged

InitLegacy ==
    /\ Untouched
    /\ probe = NoProbe
    /\ legacy = [NoLegacy EXCEPT !.left = LegacyPkgs]

NextLegacy ==
    \/ \E w \in LegacyWorkers : legacy_take(w)
    \/ \E w \in LegacyWorkers : \E limited \in BOOLEAN : legacy_rate_limit(w, limited)
    \/ \E w \in LegacyWorkers : legacy_limited_batch(w)
    \/ \E w \in LegacyWorkers : \E failed \in BOOLEAN : legacy_fetch(w, failed)
    \/ \E w \in LegacyWorkers : legacy_write(w)
    \/ \E w \in LegacyWorkers : \E due \in BOOLEAN : legacy_notify(w, due)
    \/ \E w \in LegacyWorkers : legacy_callback(w)

SpecLegacy == InitLegacy /\ [][NextLegacy]_vars

\* worker a cannot go on before worker b releases a lock
WaitsFor(a, b) ==
    /\ a # b
    /\ \/ legacy.pc[a] \in {"start", "write", "ewrite", "callback"} /\ legacy.lock = b
       \/ legacy.pc[a] \in {"limited", "notify"} /\ legacy.batch_lock = b

\* C37: no state is reached in which threads wait forever on the engine lock
\* or the batch lock: no two workers each wait for a lock the other holds.
C37_NoDeadlock ==
    \A a, b \in LegacyWorkers : ~(WaitsFor(a, b) /\ WaitsFor(b, a))

\* ------------------------------------------------- the check batch, fairly
\* the steps of the threads the engine has started: the batch threads, the
\* executor's workers and the registry's answers
ThreadSteps ==
    \/ \E b \in BatchIds : batch_snapshot(b)
    \/ \E b \in BatchIds : batch_submit(b)
    \/ \E b \in BatchIds : \E i \in 1..Len(batches[b].todo) : batch_collect(b, i)
    \/ \E b \in BatchIds : batch_collect_end(b)
    \/ \E b \in BatchIds : batch_timeout(b)
    \/ \E b \in BatchIds : batch_cleanup(b)
    \/ \E b \in BatchIds : batch_finish(b)
    \/ \E t \in DOMAIN tasks : task_start(t)
    \/ \E t \in DOMAIN tasks : task_request(t)
    \/ \E t \in DOMAIN tasks : task_write(t)
    \/ EmptyBatchActions
    \/ \E t \in DOMAIN tasks : \E o \in {"ok", "notfound", "error"} : task_response(t, o)

\* SpecCheck with threads that keep running and fetches that return; the
\* caller's calls (check_updates, cancel_check, finish_check, shutdown) may
\* or may not come.
SpecCheckFair == SpecCheck /\ WF_vars(ThreadSteps)

\* the batch thread of call b has not yet reset the flag in its cleanup
BeforeCleanup(b) == ActiveBatch(b) /\ batches[b].pc # "finish"

\* C39: every batch that starts ends, the flag is true only while a batch
\* has its cleanup ahead of it, and a flag that is true becomes false.
C39_CheckingIsReset ==
    /\ \A b \in BatchIds : ActiveBatch(b) ~> Ended(b)
    /\ [](checking => \E b \in BatchIds : BeforeCleanup(b))
    /\ checking ~> ~checking

\* a batch that checked packages has ended, uncancelled, and the flag is false
C39_Witness ==
    \E b \in BatchIds :
        /\ batches[b].pc = "done"
        /\ batches[b].started = 1
        /\ batches[b].todo # <<>>
        /\ ~batches[b].cancelled
        /\ ~_shutting_down
        /\ ~checking

\* ------------------------------------- the status of a sentinel version
\* The installed version of a listed package is a version or, when pip list
\* gave none (line 822) or pip show printed no Version line (line 362), the
\* sentinel Unknown; _fetch_package_info returns a version string or Unknown.
InstalledVersions == {V10, V20, UnknownV, ErrorV}
Answers == VersionStrings \cup {UnknownV}

\* str(x).strip().lower() on the strings of the universe
StripLower(s) ==
    [i \in 1..Len(s) |-> CASE s[i] = "U" -> "u" [] s[i] = "E" -> "e" [] OTHER -> s[i]]

\* the fallback of lines 525-530, taken when VersionComparator cannot be imported
FallbackStatus(pkg_ver, latest) ==
    IF latest = UnknownV THEN "Unknown"
    ELSE IF StripLower(latest) = StripLower(pkg_ver) THEN "Updated"
    ELSE "Outdated"

\* lines 514-530: the status _check_single_package_simple writes
check_status(imported) ==
    /\ probe.call = "check"
    /\ Returns(IF imported THEN StatusFor(probe.arg[1], probe.arg[2])
               ELSE FallbackStatus(probe.arg[1], probe.arg[2]))

InitStatus ==
    /\ Untouched
    /\ legacy = NoLegacy
    /\ \E pkg_ver \in InstalledVersions, latest \in Answers :
           probe = [call |-> "check", arg |-> <<pkg_ver, latest>>,
                    pc |-> "called", result |-> <<>>]

NextStatus == \E imported \in BOOLEAN : check_status(imported)

SpecStatus == InitStatus /\ [][NextStatus]_vars

\* C40: a check of a package whose installed version is the sentinel Unknown
\* or Error gives it the status Unknown.
C40_SentinelGivesUnknown ==
    (probe.call = "check" /\ probe.pc = "done" /\ probe.arg[1] \in {UnknownV, ErrorV})
        => probe.result = "Unknown"

====
